---- MODULE Spec2Model ----
(***************************************************************************)
(* Stock Analytics API (src/main.py): the Yahoo throttle, the TTL cache,   *)
(* the per-client rate limiter, the cached fetchers and the WebSocket      *)
(* manager with its per-connection refresh loop.                           *)
(*                                                                         *)
(* Time is counted in whole seconds; `clock` is time.time().               *)
(***************************************************************************)
EXTENDS Integers, Sequences, FiniteSets, TLC

VARIABLES
    clock,              \* time.time(), in seconds
    last_yahoo_call,    \* _last_yahoo_call (main.py:44)
    \* ---- threads inside yahoo_throttle (request handlers run in a thread pool)
    tpc,                \* position of each thread in yahoo_throttle
    twake,              \* the time the thread's time.sleep(wait) ends
    completions,        \* history: times of the last two completed acquires
    \* ---- TTLCache
    store,              \* TTLCache._store : key -> [exp, val]
    lastSet,            \* history: key -> [exp, val] of the latest set(key, ..)
    cacheOp,            \* history: the last cache operation and its result
    \* ---- RateLimiter
    hits,               \* RateLimiter._hits : client -> list of timestamps
    allowLog,           \* history: the last allow() call
    accepted,           \* history: client -> every timestamp allow() accepted
    \* ---- WSManager and the live_stream handler of each connection
    pool,               \* WSManager._pool : ticker -> list of connections
    hpc,                \* position of each connection's live_stream handler
    consecutive_errors, \* live_stream's consecutive_errors
    sleepFor,           \* seconds of the await the handler is suspended in
    bIdx,               \* broadcast: list index of the connection being sent to
    bTarget,            \* broadcast: the connection being sent to
    dead,               \* broadcast: its `dead` list
    orphan,             \* broadcast: the list it iterates was dropped from _pool
    closed,             \* the client has closed the connection
    lastWake,           \* history: what led the handler to its pending fetch
    streak,             \* history: failed cycles since the last success/cooldown
    subs,               \* history: connections subscribed and not yet removed
    lastMgrOp,          \* history: the WSManager operation of the last step
    bLog,               \* history: per handler, the broadcast it is running
    lastBroadcast,      \* history: the broadcast the last step completed
    \* ---- the request worker of the fetch specification and the upstream provider
    fpc,                \* position of the request being served
    freq,               \* the request being served
    focus,              \* the interval the requests of this run ask for
    lastUp,             \* history: the time of the last upstream call
    upCount,            \* history: the number of upstream calls so far
    upCall,             \* history: the upstream call the last step issued
    win,                \* history: the window the first successful fetch started
    lastResp,           \* history: the response the last step returned
    attempts,           \* history: the upstream history calls of the request served
    \* ---- request threads inside TTLCache.get and TTLCache.set
    cth,                \* position and locals of each thread inside the cache
    lost,               \* history: live entries the last store assignment dropped
    calls,              \* history: the number of cache calls the threads have made
    \* ---- the quote fetcher as the refresh loops call it
    lastQuote,          \* history: the fetch_quote_data call of the last step
    qWrite,             \* history: the time the quote was last written to the cache
    \* ---- the signals route
    series,             \* the enriched series handed to SignalEngine.evaluate
    sigs,               \* the list evaluate returned
    report,             \* the response of get_signals
    \* ---- the fibonacci route and TA.rsi
    fib,                \* the response of get_fibonacci
    nbars,              \* TA.rsi: bars of the close series consumed so far
    avg_gain,           \* TA.rsi: running mean of the gains, ewm's state
    avg_loss,           \* TA.rsi: running mean of the losses, ewm's state
    rsi_14              \* TA.rsi: the value of the last bar consumed

throttleVars == <<tpc, twake, completions>>
cacheVars == <<store, lastSet, cacheOp>>
limiterVars == <<hits, allowLog, accepted>>
wsVars == <<pool, hpc, consecutive_errors, sleepFor, bIdx, bTarget, dead, orphan,
            closed, lastWake, streak, subs, lastMgrOp, bLog, lastBroadcast>>
fetchVars == <<fpc, freq, focus, lastUp, upCount, upCall, win, lastResp, attempts>>
cacheThreadVars == <<cth, lost, calls>>
quoteVars == <<lastQuote, qWrite>>
signalVars == <<series, sigs, report>>
numVars == <<fib, nbars, avg_gain, avg_loss, rsi_14>>
extVars == <<cacheThreadVars, quoteVars, signalVars, numVars>>
vars == <<clock, last_yahoo_call, throttleVars, cacheVars, limiterVars, wsVars,
          fetchVars, extVars>>

(***************************************************************************)
(* Program constants                                                       *)
(***************************************************************************)
YAHOO_MIN_GAP == 2
RATE_WINDOW == 60       \* RateLimiter(window=60)
WS_POLL_INTERVAL == 60
MAX_ERRORS == 5
WS_MAX_BACKOFF == 300
WS_COOLDOWN == 120
RETRY_COOLDOWN == 30    \* safe_history: time.sleep(30)
QUOTE_TTL == 60         \* fetch_quote_data: cache.set(key, result, 60)
RSI_PERIOD == 14        \* TA.rsi(close, period=14)

(***************************************************************************)
(* Bounds of the model                                                     *)
(***************************************************************************)
BootTime == 3           \* time.time() when the process starts (> YAHOO_MIN_GAP)
NThreads == 2           \* request threads that may be inside yahoo_throttle
ThrottleHorizon == 6    \* seconds of clock the throttle specification explores
CacheMaxSize == 2       \* TTLCache(max_size): the capacity the model runs with
CacheTicks == 4         \* 30 s steps of clock the cache specification explores
RateLimit == 3          \* RateLimiter(limit): the limit the model runs with
LimiterTicks == 4       \* 30 s steps of clock the limiter specification explores
MaxPoolErrors == 1      \* failed cycles in a row per handler in the pool specification
MaxThreadCalls == 4      \* cache calls the threads of the cache make in one run
MaxUpstream == 4        \* upstream calls after which no new request is served
TickStep == 30          \* seconds per clock step of the cache, limiter and fetch runs
MaxBars == 4            \* bars of the longest series handed to the signal engine
QuoteTicks == 3         \* 30 s steps of clock the quote-loop specification explores
FetchTicks == 7         \* 30 s steps of clock the fetch specification explores
MaxRsiBars == 17        \* bars of the longest close series handed to TA.rsi
MaxMills == 30          \* highest of the small prices, in thousandths, of the fibonacci runs

Threads == 1..NThreads
Keys == {"k1", "k2", "k3"}          \* cache keys of the cache specification
Values == {[form |-> "v1"], [form |-> "v2"]}  \* cached payloads
TTLs == {30, 60}                    \* ttl arguments (main.py:380, 430)
Clients == {"10.0.0.1", "10.0.0.2"} \* client addresses seen by the middleware
Conns == {"w1", "w2", "w3"}         \* WebSocket connections
Intervals == {"5m", "15m", "30m", "1d"} \* the interval query parameter
Ticker == "AAPL"                    \* the symbol requested
Period == "1d"                      \* the period query parameter
\* the {ticker} path parameter each connection was opened with
TickerOf(c) == IF c = "w3" THEN "MSFT" ELSE "AAPL"

\* Python's None, as a cached or returned value
None == [form |-> "None"]
\* no connection / no interval
Nil == "-"

(***************************************************************************)
(* Python dict helpers                                                     *)
(***************************************************************************)
DictSet(d, k, v) == [x \in (DOMAIN d) \cup {k} |-> IF x = k THEN v ELSE d[x]]
DictDel(d, k) == [x \in (DOMAIN d) \ {k} |-> d[x]]
EmptyDict == [x \in {} |-> None]

(***************************************************************************)
(* yahoo_throttle, step by step, run by several threads (main.py:47-54).   *)
(* The function takes no lock.                                             *)
(***************************************************************************)
InitCommon ==
    /\ clock = BootTime
    /\ last_yahoo_call = 0
    /\ tpc = [t \in Threads |-> "idle"]
    /\ twake = [t \in Threads |-> 0]
    /\ completions = <<>>
    /\ store = EmptyDict
    /\ lastSet = EmptyDict
    /\ cacheOp = [op |-> "none"]
    /\ hits = EmptyDict
    /\ allowLog = [op |-> "none"]
    /\ accepted = [c \in Clients |-> <<>>]
    /\ pool = EmptyDict
    /\ hpc = [c \in Conns |-> "new"]
    /\ consecutive_errors = [c \in Conns |-> 0]
    /\ sleepFor = [c \in Conns |-> 0]
    /\ bIdx = [c \in Conns |-> 0]
    /\ bTarget = [c \in Conns |-> Nil]
    /\ dead = [c \in Conns |-> <<>>]
    /\ orphan = [c \in Conns |-> FALSE]
    /\ closed = [c \in Conns |-> FALSE]
    /\ lastWake = [c \in Conns |-> "none"]
    /\ lastBroadcast = [state |-> "none"]
    /\ streak = [c \in Conns |-> 0]
    /\ subs = {}
    /\ lastMgrOp = [op |-> "none"]
    /\ bLog = [c \in Conns |-> [state |-> "none"]]
    /\ fpc = "idle"
    /\ freq = [kind |-> "none"]
    /\ focus \in Intervals
    /\ lastUp = -1
    /\ upCount = 0
    /\ upCall = [at |-> -1]
    /\ win = [start |-> -1]
    /\ lastResp = [status |-> "none"]
    /\ attempts = <<>>
    /\ cth = [t \in Threads |-> [pc |-> "idle"]]
    /\ lost = {}
    /\ calls = 0
    /\ lastQuote = [state |-> "none"]
    /\ qWrite = -1
    /\ series = <<>>
    /\ sigs = <<>>
    /\ report = [overall |-> "none"]
    /\ fib = [state |-> "none"]
    /\ nbars = 0
    /\ avg_gain = [form |-> "NaN"]
    /\ avg_loss = [form |-> "NaN"]
    /\ rsi_14 = [form |-> "NaN"]

\* a thread enters yahoo_throttle()
ThrottleCall(t) ==
    /\ tpc[t] = "idle"
    /\ tpc' = [tpc EXCEPT ![t] = "read"]
    /\ UNCHANGED <<clock, last_yahoo_call, twake, completions, cacheVars, limiterVars, wsVars, fetchVars, extVars>>

\* wait = YAHOO_MIN_GAP - (now - _last_yahoo_call)
ThrottleWait(now, last) == YAHOO_MIN_GAP - (now - last)

\* lines 50-52: now = time.time(); wait = ...; if wait > 0
ThrottleRead(t) ==
    /\ tpc[t] = "read"
    /\ LET wait == ThrottleWait(clock, last_yahoo_call) IN
         IF wait > 0
           THEN /\ tpc' = [tpc EXCEPT ![t] = "sleep"]
                /\ twake' = [twake EXCEPT ![t] = clock + wait]
           ELSE /\ tpc' = [tpc EXCEPT ![t] = "store"]
                /\ UNCHANGED twake
    /\ UNCHANGED <<clock, last_yahoo_call, completions, cacheVars, limiterVars, wsVars, fetchVars, extVars>>

\* line 53: time.sleep(wait) returns once the time has passed
ThrottleSleep(t) ==
    /\ tpc[t] = "sleep"
    /\ clock >= twake[t]
    /\ tpc' = [tpc EXCEPT ![t] = "store"]
    /\ UNCHANGED <<clock, last_yahoo_call, twake, completions, cacheVars, limiterVars, wsVars, fetchVars, extVars>>

\* line 54: _last_yahoo_call = time.time(); the acquire completes
ThrottleStore(t) ==
    /\ tpc[t] = "store"
    /\ last_yahoo_call' = clock
    /\ completions' = IF Len(completions) < 2
                        THEN Append(completions, clock)
                        ELSE <<completions[2], clock>>
    /\ tpc' = [tpc EXCEPT ![t] = "idle"]
    /\ UNCHANGED <<clock, twake, cacheVars, limiterVars, wsVars, fetchVars, extVars>>

TickSecond ==
    /\ clock < BootTime + ThrottleHorizon
    /\ clock' = clock + 1
    /\ UNCHANGED <<last_yahoo_call, throttleVars, cacheVars, limiterVars, wsVars, fetchVars, extVars>>

NextThrottle ==
    \/ \E t \in Threads : ThrottleCall(t)
    \/ \E t \in Threads : ThrottleRead(t)
    \/ \E t \in Threads : ThrottleSleep(t)
    \/ \E t \in Threads : ThrottleStore(t)
    \/ TickSecond

SpecThrottle == InitCommon /\ [][NextThrottle]_vars

\* C1: any two consecutive completions of acquire, by whatever callers, are at
\* least YAHOO_MIN_GAP seconds apart.
C1_ConsecutiveCompletionsMinGap ==
    Len(completions) = 2 => completions[2] - completions[1] >= YAHOO_MIN_GAP

(***************************************************************************)
(* TTLCache (main.py:71-95)                                                *)
(***************************************************************************)
\* TTLCache.get with the expiry test written `>`: an entry is still served at
\* the instant it expires
TTLCache_get_Late(s, key, now) ==
    IF key \notin DOMAIN s THEN None
    ELSE IF now > s[key].exp THEN None
    ELSE s[key].val

\* TTLCache.get, the value returned (lines 77-83); a stored entry is a
\* non-empty tuple, so `not entry` is true only for a missing key
TTLCache_get(s, key, now) ==
    IF key \notin DOMAIN s THEN None
    ELSE IF now >= s[key].exp THEN None
    ELSE s[key].val

\* TTLCache.get, the store it leaves (line 81: del self._store[key])
TTLCache_get_store(s, key, now) ==
    IF key \in DOMAIN s /\ now >= s[key].exp THEN DictDel(s, key) ELSE s

\* the purge with the test written `>=`: an entry expiring at this very
\* instant survives it
TTLCache_purge_KeepsExpiring(s, now) ==
    IF Cardinality(DOMAIN s) >= CacheMaxSize
      THEN [k \in {x \in DOMAIN s : s[x].exp >= now} |-> s[k]]
      ELSE s

\* lines 86-90: at capacity, keep only the entries with v[0] > now
TTLCache_purge(s, now) ==
    IF Cardinality(DOMAIN s) >= CacheMaxSize
      THEN [k \in {x \in DOMAIN s : s[x].exp > now} |-> s[k]]
      ELSE s

\* TTLCache.set (lines 85-91)
TTLCache_set(s, key, value, ttl, now) ==
    DictSet(TTLCache_purge(s, now), key, [exp |-> now + ttl, val |-> value])

\* TTLCache.size (lines 93-95)
TTLCache_size(s) == Cardinality(DOMAIN s)

CacheGetOp(k) ==
    /\ cacheOp' = [op |-> "get", key |-> k, at |-> clock,
                   res |-> TTLCache_get(store, k, clock)]
    /\ store' = TTLCache_get_store(store, k, clock)
    /\ UNCHANGED <<clock, last_yahoo_call, lastSet, throttleVars, limiterVars, wsVars, fetchVars, extVars>>

CacheSetOp(k, v, ttl) ==
    /\ store' = TTLCache_set(store, k, v, ttl, clock)
    /\ lastSet' = DictSet(lastSet, k, [exp |-> clock + ttl, val |-> v])
    /\ cacheOp' = [op |-> "set", key |-> k, at |-> clock, res |-> None,
                   val |-> v, ttl |-> ttl]
    /\ UNCHANGED <<clock, last_yahoo_call, throttleVars, limiterVars, wsVars, fetchVars, extVars>>

TickCache ==
    /\ clock < BootTime + CacheTicks * TickStep
    /\ clock' = clock + TickStep
    /\ UNCHANGED <<last_yahoo_call, throttleVars, cacheVars, limiterVars, wsVars, fetchVars, extVars>>

NextCache ==
    \/ \E k \in Keys : CacheGetOp(k)
    \/ \E k \in Keys, v \in Values, ttl \in TTLs : CacheSetOp(k, v, ttl)
    \/ TickCache

SpecCache == InitCommon /\ [][NextCache]_vars

\* C3: get(key) returns the value of the latest set(key, v, ttl) while
\* now < expires_at of that set; once now >= expires_at (or when the key was
\* never set) it returns absent and the key has no entry left; so a value is
\* never returned that was not the one last inserted under this very key.
C3_GetReturnsLatestUnexpired ==
    cacheOp.op = "get" =>
        LET k == cacheOp.key IN
        IF k \in DOMAIN lastSet /\ cacheOp.at < lastSet[k].exp
          THEN cacheOp.res = lastSet[k].val
          ELSE cacheOp.res = None /\ k \notin DOMAIN store

\* a get at the very instant of expiry that found the key's entry and dropped it,
\* while another key still holds a live entry with a different value
C3_Witness ==
    /\ cacheOp.op = "get"
    /\ cacheOp.key \in DOMAIN lastSet
    /\ cacheOp.at = lastSet[cacheOp.key].exp
    /\ cacheOp.res = None
    /\ \E k2 \in DOMAIN store :
          /\ k2 # cacheOp.key
          /\ clock < store[k2].exp
          /\ store[k2].val # lastSet[cacheOp.key].val

\* a step of set(key, value, ttl): the operation recorded is a set and the
\* clock did not move (a get records a get, a tick moves the clock)
SetStep == cacheOp'.op = "set" /\ clock' = clock
\* the store held at least max_size entries when the set began
AtCapacity == Cardinality(DOMAIN store) >= CacheMaxSize
\* the purge had nothing to remove: no entry of the store had expired
NothingExpired == \A x \in DOMAIN store : store[x].exp > clock
\* what a set leaves behind, whatever the store's size afterwards: the key is
\* mapped to (now + ttl, value); at capacity exactly the expired entries of the
\* other keys are gone; below capacity every other entry stays, expired or not
SetWritesAndPurges ==
    LET k == cacheOp'.key IN
    /\ k \in DOMAIN store'
    /\ store'[k] = [exp |-> clock + cacheOp'.ttl, val |-> cacheOp'.val]
    /\ DOMAIN store' \subseteq DOMAIN store \cup {k}
    /\ \A x \in DOMAIN store \ {k} :
          IF AtCapacity /\ store[x].exp <= clock
            THEN x \notin DOMAIN store'
            ELSE x \in DOMAIN store' /\ store'[x] = store[x]

\* C21 as stated: set(key, value, ttl) never rejects a write and always leaves
\* key mapped to value with expires_at = now + ttl; when the store already
\* holds at least max_size entries, every entry with expires_at <= now is
\* purged first and no unexpired entry is removed; if the purge frees nothing
\* the store size exceeds max_size after the write.
C21_SetPurgesThenExceeds ==
    [][SetStep =>
        /\ SetWritesAndPurges
        /\ (AtCapacity /\ NothingExpired) =>
              TTLCache_size(store') > CacheMaxSize]_vars

\* C21, amended: as above, but the size exceeds max_size after a purge that
\* freed nothing only when the key written was not in the store already;
\* overwriting a key of a full store of unexpired entries leaves the size as
\* it was.
C21_SetPurgesThenExceedsForNewKey ==
    [][SetStep =>
        /\ SetWritesAndPurges
        /\ (AtCapacity /\ NothingExpired) =>
              TTLCache_size(store') =
                  TTLCache_size(store) +
                      (IF cacheOp'.key \in DOMAIN store THEN 0 ELSE 1)
        /\ (AtCapacity /\ NothingExpired /\ cacheOp'.key \notin DOMAIN store) =>
              TTLCache_size(store') > CacheMaxSize]_vars

\* after a set of a new key into a full store with nothing expired: the store
\* holds more than max_size entries, all unexpired, the key written among them
C21_Witness ==
    /\ cacheOp.op = "set"
    /\ cacheOp.at = clock
    /\ TTLCache_size(store) > CacheMaxSize
    /\ \A x \in DOMAIN store : store[x].exp > clock
    /\ store[cacheOp.key] = [exp |-> clock + cacheOp.ttl, val |-> cacheOp.val]
    /\ \E x \in DOMAIN store : store[x].exp < store[cacheOp.key].exp

(***************************************************************************)
(* TTLCache.get and TTLCache.set run by several request threads (the sync  *)
(* routes run in a thread pool), one step per access to self._store; the   *)
(* class takes no lock.  A dict iterator raises RuntimeError when the size *)
(* of the dict it iterates has changed; `del d[k]` raises KeyError when k  *)
(* is gone.                                                                *)
(***************************************************************************)
ThreadValue == [form |-> "v1"]      \* the payload the threads write
ThreadTTL == 30                     \* the ttl the threads write with

IdleThread == [pc |-> "idle"]
Failed(err) == [pc |-> "failed", err |-> err]

\* line 77: entry = self._store.get(key); line 79 when there is none
ThreadGetLoad(t, k) ==
    /\ cth[t].pc = "idle"
    /\ calls < MaxThreadCalls
    /\ calls' = calls + 1
    /\ cth' = [cth EXCEPT ![t] =
                 IF k \in DOMAIN store
                   THEN [pc |-> "get_check", key |-> k, entry |-> store[k]]
                   ELSE IdleThread]
    /\ lost' = {}
    /\ UNCHANGED <<clock, last_yahoo_call, throttleVars, cacheVars, limiterVars,
                   wsVars, fetchVars, quoteVars, signalVars, numVars>>

\* line 80: time.time() >= entry[0]; line 83 when the entry is live
ThreadGetCheck(t) ==
    /\ cth[t].pc = "get_check"
    /\ UNCHANGED calls
    /\ cth' = [cth EXCEPT ![t] =
                 IF clock >= cth[t].entry.exp
                   THEN [pc |-> "get_del", key |-> cth[t].key]
                   ELSE IdleThread]
    /\ lost' = {}
    /\ UNCHANGED <<clock, last_yahoo_call, throttleVars, cacheVars, limiterVars,
                   wsVars, fetchVars, quoteVars, signalVars, numVars>>

\* line 81: del self._store[key]
ThreadGetDel(t) ==
    /\ cth[t].pc = "get_del"
    /\ UNCHANGED calls
    /\ IF cth[t].key \in DOMAIN store
         THEN /\ store' = DictDel(store, cth[t].key)
              /\ cth' = [cth EXCEPT ![t] = IdleThread]
         ELSE /\ store' = store
              /\ cth' = [cth EXCEPT ![t] = Failed("KeyError")]
    /\ lost' = {}
    /\ UNCHANGED <<clock, last_yahoo_call, lastSet, cacheOp, throttleVars, limiterVars,
                   wsVars, fetchVars, quoteVars, signalVars, numVars>>

\* lines 86-88: len(self._store) >= self._max; now = time.time(); the
\* comprehension takes an iterator over self._store.items()
ThreadSetLen(t, k) ==
    /\ cth[t].pc = "idle"
    /\ calls < MaxThreadCalls
    /\ calls' = calls + 1
    /\ cth' = [cth EXCEPT ![t] =
                 IF Cardinality(DOMAIN store) >= CacheMaxSize
                   THEN [pc |-> "purge", key |-> k, now |-> clock,
                         size |-> Cardinality(DOMAIN store), seen |-> {},
                         acc |-> EmptyDict, live |-> TRUE, snap |-> EmptyDict]
                   ELSE [pc |-> "write", key |-> k]]
    /\ lost' = {}
    /\ UNCHANGED <<clock, last_yahoo_call, throttleVars, cacheVars, limiterVars,
                   wsVars, fetchVars, quoteVars, signalVars, numVars>>

\* the dict the comprehension of a thread iterates: self._store as long as no
\* other thread has assigned a new dict to it, else the dict it started on
Iterated(r) == IF r.live THEN store ELSE r.snap

\* lines 88-90: one round of the comprehension: the iterator checks the size of
\* its dict, then yields an item not yet visited, kept when v[0] > now; when
\* none is left the comprehension ends
ThreadPurgeNext(t) ==
    LET r == cth[t]
        d == Iterated(r)
    IN
    /\ r.pc = "purge"
    /\ UNCHANGED calls
    /\ IF Cardinality(DOMAIN d) # r.size
         THEN cth' = [cth EXCEPT ![t] = Failed("RuntimeError")]
         ELSE IF DOMAIN d \ r.seen = {}
           THEN cth' = [cth EXCEPT ![t] = [pc |-> "assign", key |-> r.key, acc |-> r.acc]]
           ELSE \E k \in DOMAIN d \ r.seen :
                  cth' = [cth EXCEPT ![t] =
                            [r EXCEPT !.seen = @ \cup {k},
                                      !.acc = IF d[k].exp > r.now
                                                THEN DictSet(@, k, d[k]) ELSE @]]
    /\ lost' = {}
    /\ UNCHANGED <<clock, last_yahoo_call, throttleVars, cacheVars, limiterVars,
                   wsVars, fetchVars, quoteVars, signalVars, numVars>>

\* history: the entries of other keys that are live in the dict being replaced
\* and are missing from, or older in, the dict that replaces it
Dropped(old, new, key, now) ==
    {k \in DOMAIN old \ {key} :
        /\ old[k].exp > now
        /\ (k \notin DOMAIN new \/ new[k] # old[k])}

\* lines 88-90: self._store = {...}, the assignment
ThreadPurgeAssign(t) ==
    LET r == cth[t] IN
    /\ r.pc = "assign"
    /\ UNCHANGED calls
    /\ store' = r.acc
    /\ lost' = Dropped(store, r.acc, r.key, clock)
    /\ cth' = [u \in Threads |->
                 IF u = t THEN [pc |-> "write", key |-> r.key]
                 ELSE IF cth[u].pc = "purge" /\ cth[u].live
                   THEN [cth[u] EXCEPT !.live = FALSE, !.snap = store]
                   ELSE cth[u]]
    /\ UNCHANGED <<clock, last_yahoo_call, lastSet, cacheOp, throttleVars, limiterVars,
                   wsVars, fetchVars, quoteVars, signalVars, numVars>>

\* line 91: self._store[key] = (time.time() + ttl, value)
ThreadSetWrite(t) ==
    /\ cth[t].pc = "write"
    /\ UNCHANGED calls
    /\ store' = DictSet(store, cth[t].key,
                        [exp |-> clock + ThreadTTL, val |-> ThreadValue])
    /\ cth' = [cth EXCEPT ![t] = IdleThread]
    /\ lost' = {}
    /\ UNCHANGED <<clock, last_yahoo_call, lastSet, cacheOp, throttleVars, limiterVars,
                   wsVars, fetchVars, quoteVars, signalVars, numVars>>

NextCacheThreads ==
    \/ \E t \in Threads, k \in Keys : ThreadGetLoad(t, k)
    \/ \E t \in Threads : ThreadGetCheck(t)
    \/ \E t \in Threads : ThreadGetDel(t)
    \/ \E t \in Threads, k \in Keys : ThreadSetLen(t, k)
    \/ \E t \in Threads : ThreadPurgeNext(t)
    \/ \E t \in Threads : ThreadPurgeAssign(t)
    \/ \E t \in Threads : ThreadSetWrite(t)
    \/ TickCache

SpecCacheThreads == InitCommon /\ [][NextCacheThreads]_vars

\* C11: under any interleaving of the steps of get and set calls of different
\* threads, no call fails with an internal error, and no live entry written by a
\* completed set is lost through a concurrent set of a different key.
C11_ConcurrentGetSetSafe ==
    /\ \A t \in Threads : cth[t].pc # "failed"
    /\ lost = {}

(***************************************************************************)
(* RateLimiter (main.py:102-117)                                           *)
(***************************************************************************)
\* self._hits[client] of a defaultdict(list)
HitsOf(h, client) == IF client \in DOMAIN h THEN h[client] ELSE <<>>

\* the pruning with `t >= cutoff`: a hit exactly one window old still counts
RateLimiter_prune_Inclusive(list, now) ==
    LET cutoff == now - RATE_WINDOW
        Fresh(t) == t >= cutoff
    IN  SelectSeq(list, Fresh)

\* lines 110-113: keep the timestamps t > cutoff, cutoff = now - window
RateLimiter_prune(list, now) ==
    LET cutoff == now - RATE_WINDOW
        Fresh(t) == t > cutoff
    IN  SelectSeq(list, Fresh)

\* RateLimiter.allow, the value returned (lines 114-117)
RateLimiter_allow(h, client, now) ==
    Len(RateLimiter_prune(HitsOf(h, client), now)) < RateLimit

\* RateLimiter.allow, the hits it leaves (lines 111-116)
RateLimiter_allow_hits(h, client, now) ==
    LET kept == RateLimiter_prune(HitsOf(h, client), now) IN
    DictSet(h, client, IF Len(kept) >= RateLimit THEN kept ELSE Append(kept, now))

AllowOp(c) ==
    /\ hits' = RateLimiter_allow_hits(hits, c, clock)
    /\ allowLog' = [op |-> "allow", client |-> c, at |-> clock,
                    res |-> RateLimiter_allow(hits, c, clock),
                    before |-> accepted[c]]
    /\ accepted' = IF RateLimiter_allow(hits, c, clock)
                     THEN [accepted EXCEPT ![c] = Append(@, clock)]
                     ELSE accepted
    /\ UNCHANGED <<clock, last_yahoo_call, throttleVars, cacheVars, wsVars, fetchVars, extVars>>

TickLimiter ==
    /\ clock < BootTime + LimiterTicks * TickStep
    /\ clock' = clock + TickStep
    /\ UNCHANGED <<last_yahoo_call, throttleVars, cacheVars, limiterVars, wsVars, fetchVars, extVars>>

NextLimiter ==
    \/ \E c \in Clients : AllowOp(c)
    \/ TickLimiter

SpecLimiter == InitCommon /\ [][NextLimiter]_vars

\* the accepted timestamps of `list` that are t > lo
CountAfter(list, lo) == Cardinality({i \in 1..Len(list) : list[i] > lo})
\* the accepted timestamps of `list` that are t >= lo
CountFrom(list, lo) == Cardinality({i \in 1..Len(list) : list[i] >= lo})

\* C5 (as stated): a call is rejected iff, after dropping the accepted timestamps
\* older than now - window (t < now - window), at least `limit` of them remain.
C5_RejectIffLimitNotOlder ==
    allowLog.op = "allow" =>
        (allowLog.res = FALSE
            <=> CountFrom(allowLog.before, allowLog.at - RATE_WINDOW) >= RateLimit)

\* C5 (amended): a call is rejected iff at least `limit` accepted timestamps of
\* the client are newer than now - window (t > now - window); so no window
\* (w - window, w] ever holds more than `limit` accepted calls of one client,
\* the call after `limit` accepted ones in one window is rejected, and a call
\* made once the window has elapsed (now >= t + window) is accepted again.
C5_RejectIffLimitNewer ==
    /\ allowLog.op = "allow" =>
        (allowLog.res = FALSE
            <=> CountAfter(allowLog.before, allowLog.at - RATE_WINDOW) >= RateLimit)
    /\ \A c \in Clients : \A i \in 1..Len(accepted[c]) :
          Cardinality({j \in 1..i : accepted[c][j] > accepted[c][i] - RATE_WINDOW})
              <= RateLimit
    /\ allowLog.op = "allow" =>
          /\ (Len(allowLog.before) >= RateLimit
              /\ allowLog.before[Len(allowLog.before) - RateLimit + 1]
                    > allowLog.at - RATE_WINDOW) => allowLog.res = FALSE
          /\ (\A i \in 1..Len(allowLog.before) :
                 allowLog.at >= allowLog.before[i] + RATE_WINDOW) => allowLog.res = TRUE

\* a call accepted exactly one window after `limit` calls were accepted at one
\* instant
C5_Witness ==
    /\ allowLog.op = "allow"
    /\ allowLog.res = TRUE
    /\ Len(allowLog.before) = RateLimit
    /\ \A i \in 1..RateLimit : allowLog.before[i] = allowLog.at - RATE_WINDOW

(***************************************************************************)
(* WSManager (main.py:310-339)                                             *)
(***************************************************************************)
otherThanWs == <<clock, last_yahoo_call, throttleVars, cacheVars, limiterVars, fetchVars, extVars>>

\* self._pool.get(ticker, [])
PoolGet(p, t) == IF t \in DOMAIN p THEN p[t] ELSE <<>>

\* ws in list
InList(ws, list) == \E i \in 1..Len(list) : list[i] = ws

\* list.remove(ws): drops the first occurrence
ListRemove(list, ws) ==
    LET i == CHOOSE j \in 1..Len(list) :
                 list[j] = ws /\ \A k \in 1..(j - 1) : list[k] # ws
    IN  [k \in 1..(Len(list) - 1) |-> IF k < i THEN list[k] ELSE list[k + 1]]

\* WSManager.connect after ws.accept() (line 316)
WSManager_connect(p, t, ws) == DictSet(p, t, Append(PoolGet(p, t), ws))

\* disconnect without lines 322-323: the emptied list stays in the pool
WSManager_disconnect_KeepEntry(p, t, ws) ==
    IF InList(ws, PoolGet(p, t)) THEN DictSet(p, t, ListRemove(p[t], ws)) ELSE p

\* WSManager.disconnect (lines 320-323)
WSManager_disconnect(p, t, ws) ==
    LET p1 == IF InList(ws, PoolGet(p, t))
                THEN DictSet(p, t, ListRemove(p[t], ws))
                ELSE p
    IN  IF t \in DOMAIN p1 /\ Len(p1[t]) = 0 THEN DictDel(p1, t) ELSE p1

\* broadcast without its second loop: failed connections stay subscribed
WSManager_remove_dead_Never(p, t, deadList) == p

\* WSManager.broadcast, its second loop (lines 333-335)
RECURSIVE WSManager_remove_dead(_, _, _)
WSManager_remove_dead(p, t, deadList) ==
    IF Len(deadList) = 0 THEN p
    ELSE LET ws == Head(deadList)
             p1 == IF InList(ws, PoolGet(p, t))
                     THEN DictSet(p, t, ListRemove(p[t], ws))
                     ELSE p
         IN  WSManager_remove_dead(p1, t, Tail(deadList))

\* WSManager.count (lines 337-339)
RECURSIVE SumLen(_, _)
SumLen(p, ks) ==
    IF ks = {} THEN 0
    ELSE LET k == CHOOSE x \in ks : TRUE IN Len(p[k]) + SumLen(p, ks \ {k})
WSManager_count(p) == SumLen(p, DOMAIN p)

(***************************************************************************)
(* live_stream (main.py:868-951): one asyncio task per connection; a step  *)
(* runs from one await to the next.                                        *)
(***************************************************************************)
Min(a, b) == IF a <= b THEN a ELSE b

\* the backoff without its ceiling
Backoff_NoCeiling(errors) == WS_POLL_INTERVAL * (2 ^ errors)

\* lines 936-939: min(WS_POLL_INTERVAL * (2 ** consecutive_errors), 300)
Backoff(errors) == Min(WS_POLL_INTERVAL * (2 ^ errors), WS_MAX_BACKOFF)

\* the connections of `deadList` that the second loop of broadcast removes
RemovedBy(p, t, deadList) == {ws \in Conns : InList(ws, deadList) /\ InList(ws, PoolGet(p, t))}

NoOp == [op |-> "none"]
NoBroadcast == [state |-> "none"]

\* line 880: await ws_mgr.connect(ticker, ws)
Connect(c) ==
    /\ hpc[c] = "new"
    /\ pool' = WSManager_connect(pool, TickerOf(c), c)
    /\ hpc' = [hpc EXCEPT ![c] = "fetch"]
    /\ subs' = subs \cup {c}
    /\ lastMgrOp' = [op |-> "connect", ticker |-> TickerOf(c)]
    /\ lastBroadcast' = NoBroadcast
    /\ lastWake' = [lastWake EXCEPT ![c] = "connect"]
    /\ UNCHANGED <<consecutive_errors, sleepFor, bIdx, bTarget, dead, orphan, closed,
                   streak, bLog, otherThanWs>>

\* the end of broadcast (lines 333-335) and of the cycle (line 916), then the
\* wait of lines 936-944
FinishCycle(c, deadList, log) ==
    LET t == TickerOf(c) IN
    /\ pool' = WSManager_remove_dead(pool, t, deadList)
    /\ subs' = subs \ RemovedBy(pool, t, deadList)
    /\ lastMgrOp' = [op |-> "broadcast", ticker |-> t]
    /\ consecutive_errors' = [consecutive_errors EXCEPT ![c] = 0]
    /\ streak' = [streak EXCEPT ![c] = 0]
    /\ sleepFor' = [sleepFor EXCEPT ![c] = Backoff(0)]
    /\ hpc' = [hpc EXCEPT ![c] = "wait"]
    /\ bIdx' = [bIdx EXCEPT ![c] = 0]
    /\ bTarget' = [bTarget EXCEPT ![c] = Nil]
    /\ dead' = [dead EXCEPT ![c] = <<>>]
    /\ orphan' = [orphan EXCEPT ![c] = FALSE]
    /\ bLog' = [bLog EXCEPT ![c] = NoBroadcast]
    /\ lastBroadcast' = [log EXCEPT !.state = "done", !.after = PoolGet(pool', t)]

\* lines 903-916: the handler's part of a cycle whose fetch_quote_data has
\* succeeded: the payload is built and broadcast starts its first send
CycleOk(c) ==
    LET t == TickerOf(c)
        list == PoolGet(pool, t)
        log == [state |-> "running", by |-> c, ticker |-> t, start |-> list,
                sent |-> <<>>, failed |-> {}, after |-> <<>>]
    IN
    /\ hpc[c] = "fetch"
    /\ lastWake' = [lastWake EXCEPT ![c] = "none"]
    /\ IF Len(list) = 0
         THEN FinishCycle(c, <<>>, log)
         ELSE /\ hpc' = [hpc EXCEPT ![c] = "send"]
              /\ bIdx' = [bIdx EXCEPT ![c] = 1]
              /\ bTarget' = [bTarget EXCEPT ![c] = list[1]]
              /\ dead' = [dead EXCEPT ![c] = <<>>]
              /\ orphan' = [orphan EXCEPT ![c] = FALSE]
              /\ bLog' = [bLog EXCEPT ![c] = [log EXCEPT !.sent = <<list[1]>>]]
              /\ lastMgrOp' = NoOp
              /\ lastBroadcast' = NoBroadcast
              /\ UNCHANGED <<pool, subs, consecutive_errors, streak, sleepFor>>
    /\ UNCHANGED closed

\* lines 889-915: fetch_quote_data succeeds, the payload is built and broadcast
\* starts its first send
FetchOk(c) == CycleOk(c) /\ UNCHANGED otherThanWs

\* a cycle that raised handled like a failure of the connection: the handler
\* unsubscribes and returns
CycleError_Disconnects(c) ==
    /\ hpc[c] = "fetch"
    /\ lastWake' = [lastWake EXCEPT ![c] = "none"]
    /\ pool' = WSManager_disconnect(pool, TickerOf(c), c)
    /\ subs' = subs \ {c}
    /\ hpc' = [hpc EXCEPT ![c] = "exited"]
    /\ closed' = [closed EXCEPT ![c] = TRUE]
    /\ consecutive_errors' = [consecutive_errors EXCEPT ![c] = 0]
    /\ streak' = [streak EXCEPT ![c] = 0]
    /\ sleepFor' = [sleepFor EXCEPT ![c] = 0]
    /\ lastMgrOp' = [op |-> "disconnect", ticker |-> TickerOf(c)]
    /\ lastBroadcast' = NoBroadcast
    /\ UNCHANGED <<bIdx, bTarget, dead, orphan, bLog>>

\* lines 918-932 and 936-944: the handler's part of a cycle that raised: count
\* it, then either the 120 s cooldown or the wait
CycleError(c) ==
    LET n == consecutive_errors[c] + 1 IN
    /\ hpc[c] = "fetch"
    /\ lastWake' = [lastWake EXCEPT ![c] = "none"]
    /\ consecutive_errors' = [consecutive_errors EXCEPT ![c] = n]
    /\ streak' = [streak EXCEPT ![c] = @ + 1]
    /\ IF n >= MAX_ERRORS
         THEN /\ hpc' = [hpc EXCEPT ![c] = "cooldown"]
              /\ sleepFor' = [sleepFor EXCEPT ![c] = WS_COOLDOWN]
         ELSE /\ hpc' = [hpc EXCEPT ![c] = "wait"]
              /\ sleepFor' = [sleepFor EXCEPT ![c] = Backoff(n)]
    /\ lastMgrOp' = NoOp
    /\ lastBroadcast' = NoBroadcast
    /\ UNCHANGED <<pool, bIdx, bTarget, dead, orphan, closed, subs, bLog>>

\* lines 918-932 and 936-944: the cycle raised; count it, then either the
\* 120 s cooldown or the wait
FetchError(c) == CycleError(c) /\ UNCHANGED otherThanWs

\* lines 930-932: asyncio.sleep(120) returns; consecutive_errors = 0; continue
CooldownDone(c) ==
    /\ hpc[c] = "cooldown"
    /\ consecutive_errors' = [consecutive_errors EXCEPT ![c] = 0]
    /\ streak' = [streak EXCEPT ![c] = 0]
    /\ lastWake' = [lastWake EXCEPT ![c] = "cooldown"]
    /\ sleepFor' = [sleepFor EXCEPT ![c] = 0]
    /\ hpc' = [hpc EXCEPT ![c] = "fetch"]
    /\ lastMgrOp' = NoOp
    /\ lastBroadcast' = NoBroadcast
    /\ UNCHANGED <<pool, bIdx, bTarget, dead, orphan, closed, subs, bLog, otherThanWs>>

\* lines 329-332 and the loop header of line 328: the send the broadcast awaits
\* returns (ok) or raises (~ok); the for loop takes the next list element or ends
SendDone(c, ok) ==
    LET t == TickerOf(c)
        x == bTarget[c]
        dead1 == IF ok THEN dead[c] ELSE Append(dead[c], x)
        list == IF orphan[c] THEN <<>> ELSE PoolGet(pool, t)
        log == IF ok THEN bLog[c] ELSE [bLog[c] EXCEPT !.failed = @ \cup {x}]
    IN
    /\ hpc[c] = "send"
    /\ ok => hpc[x] # "exited"
    /\ ~ok => closed[x]
    /\ IF bIdx[c] < Len(list)
         THEN /\ bIdx' = [bIdx EXCEPT ![c] = @ + 1]
              /\ bTarget' = [bTarget EXCEPT ![c] = list[bIdx[c] + 1]]
              /\ dead' = [dead EXCEPT ![c] = dead1]
              /\ bLog' = [bLog EXCEPT ![c] =
                            [log EXCEPT !.sent = Append(@, list[bIdx[c] + 1])]]
              /\ lastMgrOp' = NoOp
              /\ lastBroadcast' = NoBroadcast
              /\ UNCHANGED <<pool, subs, consecutive_errors, streak, sleepFor, hpc,
                             orphan>>
         ELSE FinishCycle(c, dead1, log)
    /\ UNCHANGED <<closed, lastWake, otherThanWs>>

\* lines 945-946: asyncio.TimeoutError, the wait ran its full length
WaitTimeout(c) ==
    /\ hpc[c] = "wait"
    /\ hpc' = [hpc EXCEPT ![c] = "fetch"]
    /\ lastWake' = [lastWake EXCEPT ![c] = "timeout"]
    /\ sleepFor' = [sleepFor EXCEPT ![c] = 0]
    /\ lastMgrOp' = NoOp
    /\ lastBroadcast' = NoBroadcast
    /\ UNCHANGED <<pool, consecutive_errors, bIdx, bTarget, dead, orphan, closed,
                   streak, subs, bLog, otherThanWs>>

\* lines 941-944: ws.receive_text() returns a client message before the timeout;
\* control falls to the end of the while body and the loop starts its next cycle
WaitMessage(c) ==
    /\ hpc[c] = "wait"
    /\ ~closed[c]
    /\ hpc' = [hpc EXCEPT ![c] = "fetch"]
    /\ lastWake' = [lastWake EXCEPT ![c] = "message"]
    /\ sleepFor' = [sleepFor EXCEPT ![c] = 0]
    /\ lastMgrOp' = NoOp
    /\ lastBroadcast' = NoBroadcast
    /\ UNCHANGED <<pool, consecutive_errors, bIdx, bTarget, dead, orphan, closed,
                   streak, subs, bLog, otherThanWs>>

\* the handler returns: its locals are gone and the server closes the socket
Exited(c) ==
    /\ hpc' = [hpc EXCEPT ![c] = "exited"]
    /\ closed' = [closed EXCEPT ![c] = TRUE]
    /\ sleepFor' = [sleepFor EXCEPT ![c] = 0]
    /\ consecutive_errors' = [consecutive_errors EXCEPT ![c] = 0]
    /\ streak' = [streak EXCEPT ![c] = 0]
    /\ bIdx' = [bIdx EXCEPT ![c] = 0]
    /\ bTarget' = [bTarget EXCEPT ![c] = Nil]
    /\ dead' = [dead EXCEPT ![c] = <<>>]
    /\ bLog' = [bLog EXCEPT ![c] = NoBroadcast]

\* lines 948-951: ws.receive_text() raises WebSocketDisconnect (the client has
\* closed); the handler calls ws_mgr.disconnect and returns
WaitDisconnect(c) ==
    LET t == TickerOf(c) IN
    /\ hpc[c] = "wait"
    /\ closed[c]
    /\ pool' = WSManager_disconnect(pool, t, c)
    /\ orphan' = [d \in Conns |->
                    IF d # c /\ hpc[d] = "send" /\ TickerOf(d) = t
                       /\ t \in DOMAIN pool /\ t \notin DOMAIN pool'
                      THEN TRUE ELSE orphan[d]]
    /\ subs' = subs \ {c}
    /\ lastMgrOp' = [op |-> "disconnect", ticker |-> t]
    /\ lastBroadcast' = NoBroadcast
    /\ Exited(c)
    /\ UNCHANGED <<lastWake, otherThanWs>>

\* the handler's task is cancelled while suspended in an await (a send, the
\* cooldown sleep or the wait): asyncio.CancelledError derives from
\* BaseException, so neither `except Exception` of broadcast (line 331) and of the
\* loop (line 918) nor the handlers of lines 948-951 catch it; the task ends
CancelTask(c) ==
    /\ hpc[c] \in {"send", "cooldown", "wait"}
    /\ Exited(c)
    /\ lastMgrOp' = NoOp
    /\ lastBroadcast' = NoBroadcast
    /\ UNCHANGED <<pool, orphan, lastWake, subs, otherThanWs>>

\* the client closes its end of the connection
ClientClose(c) ==
    /\ hpc[c] \notin {"new", "exited"}
    /\ ~closed[c]
    /\ closed' = [closed EXCEPT ![c] = TRUE]
    /\ lastMgrOp' = NoOp
    /\ lastBroadcast' = NoBroadcast
    /\ UNCHANGED <<pool, hpc, consecutive_errors, sleepFor, bIdx, bTarget, dead,
                   orphan, lastWake, streak, subs, bLog, otherThanWs>>

\* the pool specification: every connection, with the failed cycles in a row of
\* one handler capped at MaxPoolErrors; a handler never gets to MAX_ERRORS here,
\* so the cooldown step belongs to the loop specification only
NextWS ==
    \/ \E c \in Conns : Connect(c)
    \/ \E c \in Conns : FetchOk(c)
    \/ \E c \in Conns : consecutive_errors[c] < MaxPoolErrors /\ FetchError(c)
    \/ \E c \in Conns, ok \in BOOLEAN : SendDone(c, ok)
    \/ \E c \in Conns : WaitTimeout(c)
    \/ \E c \in Conns : WaitMessage(c)
    \/ \E c \in Conns : WaitDisconnect(c)
    \/ \E c \in Conns : CancelTask(c)
    \/ \E c \in Conns : ClientClose(c)

SpecWS == InitCommon /\ [][NextWS]_vars

\* the serial specification: the manager's operations run one after the other;
\* no handler takes a step while another handler's broadcast is suspended in a send
NoOtherSending(c) == \A d \in Conns \ {c} : hpc[d] # "send"

NextWSSerial ==
    \/ \E c \in Conns : NoOtherSending(c) /\ Connect(c)
    \/ \E c \in Conns : NoOtherSending(c) /\ FetchOk(c)
    \/ \E c \in Conns : NoOtherSending(c) /\ consecutive_errors[c] < MaxPoolErrors
                           /\ FetchError(c)
    \/ \E c \in Conns, ok \in BOOLEAN : SendDone(c, ok)
    \/ \E c \in Conns : NoOtherSending(c) /\ WaitTimeout(c)
    \/ \E c \in Conns : NoOtherSending(c) /\ WaitMessage(c)
    \/ \E c \in Conns : NoOtherSending(c) /\ WaitDisconnect(c)
    \/ \E c \in Conns : NoOtherSending(c) /\ CancelTask(c)
    \/ \E c \in Conns : ClientClose(c)

SpecWSSerial == InitCommon /\ [][NextWSSerial]_vars

\* the loop specification: the refresh loops of two connections of one symbol,
\* every outcome of every cycle
LoopConns == {"w1", "w2"}

NextLoop ==
    \/ \E c \in LoopConns : Connect(c)
    \/ \E c \in LoopConns : FetchOk(c)
    \/ \E c \in LoopConns : FetchError(c)
    \/ \E c \in LoopConns : CooldownDone(c)
    \/ \E c \in LoopConns, ok \in BOOLEAN : SendDone(c, ok)
    \/ \E c \in LoopConns : WaitTimeout(c)
    \/ \E c \in LoopConns : WaitMessage(c)
    \/ \E c \in LoopConns : WaitDisconnect(c)
    \/ \E c \in LoopConns : CancelTask(c)
    \/ \E c \in LoopConns : ClientClose(c)

SpecLoop == InitCommon /\ [][NextLoop]_vars

\* the slow-subscriber specification: the refresh loops of two connections of
\* one symbol, of which SlowConn reads nothing from its socket, so that a send to
\* it need not ever complete.  The event loop runs every task that is ready and
\* every other send completes: weak fairness for each step of each handler,
\* except for the end of a send to SlowConn while its client is still there.
SlowConn == "w1"

SendToResponsive(c) ==
    /\ bTarget[c] # SlowConn \/ closed[SlowConn]
    /\ \E ok \in BOOLEAN : SendDone(c, ok)

NextSlow ==
    \/ \E c \in LoopConns : Connect(c)
    \/ \E c \in LoopConns : FetchOk(c)
    \/ \E c \in LoopConns : consecutive_errors[c] < MaxPoolErrors /\ FetchError(c)
    \/ \E c \in LoopConns, ok \in BOOLEAN : SendDone(c, ok)
    \/ \E c \in LoopConns : WaitTimeout(c)
    \/ \E c \in LoopConns : WaitDisconnect(c)
    \/ \E c \in LoopConns : ClientClose(c)

FairSlow ==
    \A c \in LoopConns :
        /\ WF_vars(Connect(c))
        /\ WF_vars(FetchOk(c))
        /\ WF_vars(SendToResponsive(c))
        /\ WF_vars(WaitTimeout(c))
        /\ WF_vars(WaitDisconnect(c))

SpecSlow == InitCommon /\ [][NextSlow]_vars /\ FairSlow

\* C6: on every exit path of the streaming handler the connection is no longer
\* in the pool of its symbol.
C6_ExitedNotInPool ==
    \A c \in Conns : hpc[c] = "exited" => ~InList(c, PoolGet(pool, TickerOf(c)))

\* the waits after the 1st..4th failed cycle in a row
WaitAfterErrors == <<120, 240, 300, 300>>

\* C7: the wait is 60 s after a successful cycle and 120, 240, 300, 300 s after
\* the 1st..4th failed cycle in a row, never more than 300 s; a successful cycle
\* resets the error counter; the 5th failed cycle in a row leads to one 120 s
\* cooldown, after which the counter is 0 and the next cycle starts.
C7_BackoffSchedule ==
    \A c \in Conns :
        /\ hpc[c] \in {"wait", "fetch"} =>
              consecutive_errors[c] = streak[c] /\ streak[c] \in 0..4
        /\ hpc[c] = "wait" =>
              /\ sleepFor[c] <= 300
              /\ sleepFor[c] = IF streak[c] = 0 THEN 60 ELSE WaitAfterErrors[streak[c]]
        /\ hpc[c] = "cooldown" => streak[c] = 5 /\ sleepFor[c] = 120
        /\ (hpc[c] = "fetch" /\ lastWake[c] = "cooldown") => consecutive_errors[c] = 0

\* a handler waiting 300 s after its 3rd failed cycle in a row (the ceiling cuts
\* 480 s down)
C7_Witness ==
    \E c \in Conns : hpc[c] = "wait" /\ streak[c] = 3 /\ sleepFor[c] = 300

\* C8: a handler is about to call the quote fetcher only after connecting, after
\* the cooldown or after a wait that ran its full length; never because a client
\* message ended the wait.
C8_MessageForcesNoFetch ==
    \A c \in Conns : hpc[c] = "fetch" => lastWake[c] # "message"

\* C16: a cycle that raised leaves its handler in the wait or in the cooldown
\* with the error counter one higher, and leaves the pool, the subscribers and
\* the connections as they were; a handler never returns from a cycle (from the
\* fetch); a handler that returns unsubscribing does so from the wait, its
\* client gone.  (A handler whose task is cancelled from outside returns with no
\* manager operation.)
C16_CycleErrorKeepsConnection ==
    [][\A c \in LoopConns :
          /\ (hpc[c] = "fetch" /\ streak'[c] = streak[c] + 1) =>
                /\ hpc'[c] \in {"wait", "cooldown"}
                /\ consecutive_errors'[c] = consecutive_errors[c] + 1
                /\ pool' = pool
                /\ subs' = subs
                /\ closed' = closed
          /\ hpc[c] = "fetch" => hpc'[c] # "exited"
          /\ (hpc[c] # "exited" /\ hpc'[c] = "exited") =>
                \/ hpc[c] = "wait" /\ closed[c] /\ lastMgrOp'.op = "disconnect"
                \/ hpc[c] \in {"send", "cooldown", "wait"} /\ lastMgrOp'.op = "none"
      ]_vars

\* a handler in the cooldown after five failed cycles in a row, its connection
\* open and still subscribed
C16_Witness ==
    \E c \in LoopConns :
        /\ hpc[c] = "cooldown"
        /\ consecutive_errors[c] = 5
        /\ ~closed[c]
        /\ c \in subs
        /\ InList(c, PoolGet(pool, TickerOf(c)))

\* the elements of a list
Elems(list) == {list[i] : i \in 1..Len(list)}

\* C12: a broadcast is not held up for ever by one subscriber whose send never
\* completes: every broadcast that has started a send goes on to the sends that
\* follow it and ends, and its refresh loop reaches its next wait.
C12_SlowSubscriberDoesNotBlock ==
    \A c \in LoopConns :
        (hpc[c] = "send") ~>
            (/\ hpc[c] = "wait"
             /\ lastBroadcast.state = "done"
             /\ lastBroadcast.by = c)

C10_LastUnsubscribeDropsEntry ==
    /\ WSManager_count(pool) = Cardinality(subs)
    /\ lastMgrOp.op = "disconnect" =>
          ((\A c \in subs : TickerOf(c) # lastMgrOp.ticker)
              => lastMgrOp.ticker \notin DOMAIN pool)

\* an unsubscribe that found its connection already removed by a broadcast (the
\* list was left empty) and dropped the symbol's entry; no subscriber remains
C10_Witness ==
    /\ lastMgrOp.op = "disconnect"
    /\ lastMgrOp.ticker \notin DOMAIN pool
    /\ WSManager_count(pool) = 0
    /\ \E c \in Conns : hpc[c] = "exited"
    /\ \A c \in Conns : hpc[c] \in {"exited", "new"}

\* how many times the payload of a broadcast went to a connection
Times(sent, ws) == Cardinality({i \in DOMAIN sent : sent[i] = ws})

\* C25: whatever other tasks unsubscribe while a broadcast is suspended in a
\* send, the broadcast sends the payload exactly once to every connection that
\* is subscribed to the symbol from its start to its end: removing one
\* subscriber never makes the broadcast skip another.
C25_UnsubscribeSkipsNobody ==
    LET b == lastBroadcast IN
    b.state = "done" =>
        \A ws \in Elems(b.start) \cap Elems(b.after) : Times(b.sent, ws) = 1

(***************************************************************************)
(* The cached fetchers (main.py:57-67, 361-431) and the chart route        *)
(* (main.py:475-535), serving one request at a time.  A step runs up to    *)
(* the next call of the upstream provider; the clock moves inside a        *)
(* request only by the sleeps of yahoo_throttle and safe_history.  All     *)
(* requests of one run ask for the same interval, `focus`.                 *)
(***************************************************************************)
notFetch == <<throttleVars, lastSet, cacheOp, limiterVars, wsVars, focus, extVars>>

NoResp == [status |-> "none"]
NoCall == [at |-> -1]

\* f"df:{ticker}:{period}:{interval}", f"chart:..." and f"quote:{ticker}"
DfKey(i) == <<"df", Ticker, Period, i>>
ChartKey(i) == <<"chart", Ticker, Period, i>>
QuoteKey == <<"quote", Ticker>>

\* the quote cached for 30 s only
fetch_quote_store_Short(s, quote, now) == TTLCache_set(s, QuoteKey, quote, 30, now)

\* line 430: cache.set(key, result, 60)
fetch_quote_store(s, quote, now) == TTLCache_set(s, QuoteKey, quote, QUOTE_TTL, now)

\* the ttl of an enriched series with the intraday value used for every interval
EnrichedTTL_Short(i) == 30

\* line 380: the ttl of an enriched series
EnrichedTTL(i) ==
    IF i \in {"1m", "5m"} THEN 30 ELSE IF i \in {"15m", "30m"} THEN 90 ELSE 180

\* line 527: the ttl of a chart response
ChartTTL(i) == IF i \in {"1m", "5m", "15m"} THEN 30 ELSE 120

\* the TTL window of a series, by interval class (spec 4.2)
WindowOf(i) ==
    IF i \in {"1m", "5m"} THEN 30 ELSE IF i \in {"15m", "30m"} THEN 90 ELSE 180

\* lines 490-525: the chart response built from an enriched series
FormatChart(df) == [form |-> "chart", fetched |-> df.fetched]

\* yahoo_throttle run by one thread: the time.time() of line 54
yahoo_throttle(now, last) ==
    IF ThrottleWait(now, last) > 0 THEN now + ThrottleWait(now, last) ELSE now

\* history: an upstream call is issued now; `throttled` tells whether
\* yahoo_throttle was acquired for it, `gap` is the time since the call before
\* it (YAHOO_MIN_GAP stands for that or more, and for a first call)
Issued(throttled) ==
    [at |-> clock, throttled |-> throttled,
     gap |-> IF lastUp < 0 THEN YAHOO_MIN_GAP ELSE Min(clock - lastUp, YAHOO_MIN_GAP)]

\* history: the upstream history call issued now ended with `outcome`
Attempt(outcome) == [outcome |-> outcome, at |-> clock]

\* history: a request for the interval arrives
Arrived(w, i) ==
    IF w.start >= 0 /\ clock >= w.start + WindowOf(i)
      THEN [w EXCEPT !.late = TRUE] ELSE w

\* history: an upstream history call for the interval is issued
Called(w) ==
    IF w.start >= 0 /\ ~w.late
      THEN [w EXCEPT !.calls = Min(@ + 1, 2)] ELSE w

\* history: the call just issued returned the series df
Fetched(w, df) ==
    IF w.start < 0
      THEN [start |-> clock, calls |-> 1, late |-> FALSE, val |-> df]
      ELSE Called(w)

Resp(kind, i, status, val, upstream, acquired) ==
    [status |-> status, kind |-> kind, interval |-> i, val |-> val, at |-> clock,
     upstream |-> upstream, acquired |-> acquired]

\* fetch_enriched up to its cache lookup (lines 366-369), called by the signals,
\* fibonacci and legacy routes
EnrichedRequest(i) ==
    LET hit == TTLCache_get(store, DfKey(i), clock)
        s1 == TTLCache_get_store(store, DfKey(i), clock)
    IN
    /\ fpc = "idle"
    /\ win' = Arrived(win, i)
    /\ store' = s1
    /\ IF hit # None
         THEN /\ lastResp' = Resp("enriched", i, "ok", hit, FALSE, FALSE)
              /\ UNCHANGED <<fpc, freq>>
         ELSE /\ fpc' = "throttle"
              /\ freq' = [kind |-> "enriched", interval |-> i, acq |-> FALSE]
              /\ lastResp' = NoResp
    /\ upCall' = NoCall
    /\ attempts' = <<>>
    /\ UNCHANGED <<clock, last_yahoo_call, lastUp, upCount, notFetch>>

\* get_chart up to the cache lookup of fetch_enriched (lines 481-488, 366-369),
\* and all of it when one of the two lookups hits (lines 490-529)
ChartRequest(i) ==
    LET hit == TTLCache_get(store, ChartKey(i), clock)
        s1 == TTLCache_get_store(store, ChartKey(i), clock)
        df == TTLCache_get(s1, DfKey(i), clock)
        s2 == TTLCache_get_store(s1, DfKey(i), clock)
    IN
    /\ fpc = "idle"
    /\ win' = Arrived(win, i)
    /\ IF hit # None
         THEN /\ store' = s1
              /\ lastResp' = Resp("chart", i, "ok", hit, FALSE, FALSE)
              /\ UNCHANGED <<fpc, freq>>
         ELSE IF df # None
           THEN /\ store' = TTLCache_set(s2, ChartKey(i), FormatChart(df),
                                         ChartTTL(i), clock)
                /\ lastResp' = Resp("chart", i, "ok", FormatChart(df), FALSE, FALSE)
                /\ UNCHANGED <<fpc, freq>>
           ELSE /\ store' = s2
                /\ fpc' = "throttle"
                /\ freq' = [kind |-> "chart", interval |-> i, acq |-> FALSE]
                /\ lastResp' = NoResp
    /\ upCall' = NoCall
    /\ attempts' = <<>>
    /\ UNCHANGED <<clock, last_yahoo_call, lastUp, upCount, notFetch>>

\* fetch_quote_data up to its cache lookup (lines 387-390)
QuoteRequest ==
    LET hit == TTLCache_get(store, QuoteKey, clock)
        s1 == TTLCache_get_store(store, QuoteKey, clock)
    IN
    /\ fpc = "idle"
    /\ store' = s1
    /\ IF hit # None
         THEN /\ lastResp' = Resp("quote", Nil, "ok", hit, FALSE, FALSE)
              /\ UNCHANGED <<fpc, freq>>
         ELSE /\ fpc' = "throttle"
              /\ freq' = [kind |-> "quote", interval |-> Nil, acq |-> FALSE]
              /\ lastResp' = NoResp
    /\ upCall' = NoCall
    /\ attempts' = <<>>
    /\ UNCHANGED <<clock, last_yahoo_call, lastUp, upCount, win, notFetch>>

\* yahoo_throttle() of safe_history (line 59) and of fetch_quote_data (line 393)
AcquireThrottle ==
    /\ fpc = "throttle"
    /\ clock' = yahoo_throttle(clock, last_yahoo_call)
    /\ last_yahoo_call' = clock'
    /\ freq' = [freq EXCEPT !.acq = TRUE]
    /\ fpc' = IF freq.kind = "quote" THEN "quote_hist" ELSE "hist"
    /\ lastResp' = NoResp
    /\ upCall' = NoCall
    /\ UNCHANGED <<store, lastUp, upCount, win, attempts, notFetch>>

\* fetch_enriched without the test of line 374: an empty series is enriched,
\* cached and returned like any other
HistoryReturned_CachesEmpty(outcome) ==
    LET i == freq.interval
        df == [form |-> "df", fetched |-> clock]
        s1 == TTLCache_set(store, DfKey(i), df, EnrichedTTL(i), clock)
    IN
    /\ fpc' = "idle"
    /\ freq' = [kind |-> "none"]
    /\ CASE outcome = "data" ->
              /\ win' = Fetched(win, df)
              /\ IF freq.kind = "chart"
                   THEN /\ store' = TTLCache_set(s1, ChartKey(i), FormatChart(df),
                                                 ChartTTL(i), clock)
                        /\ lastResp' = Resp("chart", i, "ok", FormatChart(df),
                                            TRUE, TRUE)
                   ELSE /\ store' = s1
                        /\ lastResp' = Resp("enriched", i, "ok", df, TRUE, TRUE)
         [] outcome = "empty" ->
              /\ win' = Called(win)
              /\ store' = s1
              /\ lastResp' = Resp(freq.kind, i, "404", None, TRUE, TRUE)
         [] OTHER ->
              /\ win' = Called(win)
              /\ store' = store
              /\ lastResp' = Resp(freq.kind, i, "error", None, TRUE, TRUE)

\* lines 374-382 (and 490-529 for the chart route): the history call returned
HistoryReturned(outcome) ==
    LET i == freq.interval
        df == [form |-> "df", fetched |-> clock]
        s1 == TTLCache_set(store, DfKey(i), df, EnrichedTTL(i), clock)
    IN
    /\ fpc' = "idle"
    /\ freq' = [kind |-> "none"]
    /\ CASE outcome = "data" ->
              /\ win' = Fetched(win, df)
              /\ IF freq.kind = "chart"
                   THEN /\ store' = TTLCache_set(s1, ChartKey(i), FormatChart(df),
                                                 ChartTTL(i), clock)
                        /\ lastResp' = Resp("chart", i, "ok", FormatChart(df),
                                            TRUE, TRUE)
                   ELSE /\ store' = s1
                        /\ lastResp' = Resp("enriched", i, "ok", df, TRUE, TRUE)
         [] outcome = "empty" ->
              /\ win' = Called(win)
              /\ store' = store
              /\ lastResp' = Resp(freq.kind, i, "404", None, TRUE, TRUE)
         [] OTHER ->
              /\ win' = Called(win)
              /\ store' = store
              /\ lastResp' = Resp(freq.kind, i, "error", None, TRUE, TRUE)

\* safe_history, line 61: yf.Ticker(..).history(..) and what follows it
HistoryCall(outcome) ==
    /\ fpc = "hist"
    /\ upCall' = Issued(freq.acq)
    /\ attempts' = Append(attempts, Attempt(outcome))
    /\ lastUp' = clock
    /\ upCount' = upCount + 1
    /\ IF outcome = "ratelimit"
         THEN \* lines 63-65: time.sleep(30), then the retry
              /\ clock' = clock + RETRY_COOLDOWN
              /\ fpc' = "retry"
              /\ freq' = [freq EXCEPT !.acq = FALSE]
              /\ win' = Called(win)
              /\ lastResp' = NoResp
              /\ UNCHANGED store
         ELSE /\ HistoryReturned(outcome)
              /\ UNCHANGED clock
    /\ UNCHANGED <<last_yahoo_call, notFetch>>

\* safe_history, line 66: the retry, whose exception nobody catches
HistoryRetry(outcome) ==
    /\ fpc = "retry"
    /\ upCall' = Issued(freq.acq)
    /\ attempts' = Append(attempts, Attempt(outcome))
    /\ lastUp' = clock
    /\ upCount' = upCount + 1
    /\ HistoryReturned(IF outcome = "ratelimit" THEN "error" ELSE outcome)
    /\ UNCHANGED <<clock, last_yahoo_call, notFetch>>

\* fetch_quote_data, lines 394-398: stock.history(period="5d")
QuoteHistory(outcome) ==
    /\ fpc = "quote_hist"
    /\ upCall' = Issued(freq.acq)
    /\ attempts' = Append(attempts, Attempt(outcome))
    /\ lastUp' = clock
    /\ upCount' = upCount + 1
    /\ IF outcome = "data"
         THEN /\ fpc' = "quote_info"
              /\ freq' = [freq EXCEPT !.acq = FALSE]
              /\ lastResp' = NoResp
         ELSE /\ fpc' = "idle"
              /\ freq' = [kind |-> "none"]
              /\ lastResp' = Resp("quote", Nil,
                                  IF outcome = "empty" THEN "404" ELSE "error",
                                  None, TRUE, TRUE)
    /\ UNCHANGED <<clock, last_yahoo_call, store, win, notFetch>>

\* fetch_quote_data, lines 407-431: stock.info, which may fail silently, then
\* the quote is cached for 60 s
QuoteInfo(ok) ==
    LET quote == [form |-> "quote", fetched |-> clock, info |-> ok] IN
    /\ fpc = "quote_info"
    /\ upCall' = Issued(freq.acq)
    /\ lastUp' = clock
    /\ upCount' = upCount + 1
    /\ store' = fetch_quote_store(store, quote, clock)
    /\ fpc' = "idle"
    /\ freq' = [kind |-> "none"]
    /\ lastResp' = Resp("quote", Nil, "ok", quote, TRUE, TRUE)
    /\ UNCHANGED <<clock, last_yahoo_call, win, attempts, notFetch>>

TickFetch ==
    /\ fpc = "idle"
    /\ clock < BootTime + FetchTicks * TickStep
    /\ clock' = clock + TickStep
    /\ lastResp' = NoResp
    /\ upCall' = NoCall
    /\ attempts' = <<>>
    /\ UNCHANGED <<last_yahoo_call, store, fpc, freq, lastUp, upCount, win, notFetch>>

Outcomes == {"data", "empty", "ratelimit", "error"}

\* a new request is served while the run is within its bounds
Serving == upCount < MaxUpstream /\ clock <= BootTime + FetchTicks * TickStep

NextFetch ==
    \/ Serving /\ EnrichedRequest(focus)
    \/ Serving /\ ChartRequest(focus)
    \/ Serving /\ QuoteRequest
    \/ AcquireThrottle
    \/ \E o \in Outcomes : HistoryCall(o)
    \/ \E o \in Outcomes : HistoryRetry(o)
    \/ \E o \in Outcomes : QuoteHistory(o)
    \/ \E ok \in BOOLEAN : QuoteInfo(ok)
    \/ TickFetch

SpecFetch == InitCommon /\ [][NextFetch]_vars

\* C2: every upstream call is preceded by its own acquire of the throttle, and
\* it is issued at least YAHOO_MIN_GAP seconds after the upstream call before it.
C2_EveryUpstreamCallThrottled ==
    upCall.at >= 0 => (upCall.throttled /\ upCall.gap >= YAHOO_MIN_GAP)

\* C13: a request whose upstream history fetch failed with 'too many requests'
\* made exactly one retry, 30 s later, and a retry that failed was surfaced as
\* an error; a request whose first fetch ended in any other way made no second
\* fetch, and an error of another kind was surfaced.
C13_RateLimitedFetchRetriedOnce ==
    (lastResp.status # "none" /\ Len(attempts) > 0) =>
        IF attempts[1].outcome = "ratelimit"
          THEN /\ Len(attempts) = 2
               /\ attempts[2].at = attempts[1].at + 30
               /\ attempts[2].outcome \in {"ratelimit", "error"}
                      => lastResp.status = "error"
          ELSE /\ Len(attempts) = 1
               /\ attempts[1].outcome = "error" => lastResp.status = "error"

\* the step wrote the key: it is in the cache afterwards with an entry that was
\* not there before
Written(k) == k \in DOMAIN store' /\ (k \notin DOMAIN store \/ store'[k] # store[k])

\* the TTL the policy gives the resource cached under a key: 60 s for a quote
\* snapshot, the TTL of the interval class for a series or a chart
PolicyTTL(k) == IF k[1] = "quote" THEN 60 ELSE WindowOf(k[4])

\* C22: whenever a resource is written to the cache, its entry expires after the
\* TTL of its kind: 30 s for series and chart data of 1m/5m, 90 s for 15m/30m,
\* 180 s for every other interval, 60 s for a quote snapshot.
C22_TTLFixedByKind ==
    [][\A k \in DOMAIN store' :
          Written(k) => store'[k].exp = clock' + PolicyTTL(k)]_vars

\* C14: fetch_enriched on a cache miss whose upstream history is empty answers
\* 404 with no series and leaves the cache as it was, with no entry under the key
\* (the next request for the key misses again); on a non-empty result the
\* enriched series is in the cache under the key, live, and is what is returned.
C14_EmptyHistoryNotCached ==
    [][(lastResp'.status # "none" /\ lastResp'.kind \in {"enriched", "chart"}
        /\ lastResp'.upstream) =>
          LET key == DfKey(lastResp'.interval) IN
          /\ lastResp'.status = "404" =>
                /\ store' = store
                /\ key \notin DOMAIN store'
                /\ TTLCache_get(store', key, clock') = None
                /\ lastResp'.val = None
          /\ lastResp'.status = "ok" =>
                /\ key \in DOMAIN store'
                /\ TTLCache_get(store', key, clock') # None
                /\ lastResp'.kind = "enriched" =>
                      TTLCache_get(store', key, clock') = lastResp'.val
      ]_vars

\* fetch_enriched answered 404 on a miss while the cache holds the symbol's quote
C14_Witness ==
    /\ lastResp.status = "404"
    /\ lastResp.kind = "enriched"
    /\ lastResp.upstream
    /\ DfKey(lastResp.interval) \notin DOMAIN store
    /\ QuoteKey \in DOMAIN store

\* C4: from the first successful fetch of (symbol, period, interval) on, as long
\* as every request for it arrives within the TTL window that fetch started,
\* that fetch is the only upstream history call made for it, and each such
\* request is answered from the cache with the series of that fetch, without an
\* upstream call and without acquiring the throttle.
C4_OneUpstreamCallPerWindow ==
    /\ (win.start >= 0 /\ ~win.late) => win.calls = 1
    /\ (lastResp.status # "none" /\ lastResp.kind \in {"chart", "enriched"}
        /\ win.start >= 0 /\ ~win.late) =>
          IF lastResp.upstream
            THEN win.start = lastResp.at
            ELSE /\ lastResp.status = "ok"
                 /\ ~lastResp.acquired
                 /\ lastResp.val = IF lastResp.kind = "chart"
                                     THEN FormatChart(win.val) ELSE win.val

\* a chart request for 15m answered from the cached series after the chart
\* entry of the same key has expired, inside the 90 s window
C4_Witness ==
    /\ lastResp.status = "ok"
    /\ lastResp.kind = "chart"
    /\ lastResp.interval = "15m"
    /\ ~lastResp.upstream
    /\ win.start >= 0
    /\ ~win.late
    /\ lastResp.at >= win.start + 30
    /\ lastResp.at < win.start + 90

\* C26: a chart response never carries upstream data fetched longer ago than the
\* TTL of its interval class (30 s for 1m/5m, 90 s for 15m/30m, 180 s
\* otherwise), although the chart route caches what it formats under its own
\* key and TTL on top of the cached enriched series.
C26_ChartNoStalerThanTTL ==
    (lastResp.status = "ok" /\ lastResp.kind = "chart") =>
        lastResp.at - lastResp.val.fetched <= WindowOf(lastResp.interval)

(***************************************************************************)
(* The refresh loops with the quote fetcher they call (main.py:885-916,    *)
(* 385-431).  live_stream is a coroutine and fetch_quote_data an ordinary  *)
(* function it calls without an await: the cache lookup, the throttle, the *)
(* upstream calls and the cache write of one cycle run as one step of the  *)
(* event loop, and no other refresh loop runs in between.                  *)
(***************************************************************************)
\* one cycle of the loop: fetch_quote_data(ticker), the lookup of the 5-minute
\* series for the RSI (line 895), then the broadcast or the error handling;
\* `outcome` is what stock.history answers on a miss, `info` whether stock.info
\* succeeds
QuoteCycle(c, outcome, info) ==
    LET hit == TTLCache_get(store, QuoteKey, clock)
        s1 == TTLCache_get_store(store, QuoteKey, clock)
        t1 == yahoo_throttle(clock, last_yahoo_call)
        quote == [form |-> "quote", fetched |-> t1, info |-> info]
        s2 == fetch_quote_store(s1, quote, t1)
    IN
    /\ hpc[c] = "fetch"
    /\ IF hit # None
         THEN /\ outcome = "data" /\ info
              /\ lastQuote' = [state |-> "hit", by |-> c, at |-> clock,
                               since |-> qWrite, val |-> hit]
              /\ store' = TTLCache_get_store(s1, DfKey("5m"), clock)
              /\ UNCHANGED <<clock, last_yahoo_call, qWrite>>
              /\ CycleOk(c)
         ELSE /\ lastQuote' = [state |-> "miss", by |-> c, at |-> clock,
                               since |-> qWrite, val |-> None]
              /\ clock' = t1
              /\ last_yahoo_call' = t1
              /\ IF outcome = "data"
                   THEN /\ store' = TTLCache_get_store(s2, DfKey("5m"), t1)
                        /\ qWrite' = t1
                        /\ CycleOk(c)
                   ELSE /\ info
                        /\ consecutive_errors[c] < MaxPoolErrors
                        /\ store' = s1
                        /\ UNCHANGED qWrite
                        /\ CycleError(c)
    /\ UNCHANGED <<lastSet, cacheOp, throttleVars, limiterVars, fetchVars,
                   cacheThreadVars, signalVars, numVars>>

TickQuote ==
    /\ clock < BootTime + QuoteTicks * TickStep
    /\ clock' = clock + TickStep
    /\ UNCHANGED <<last_yahoo_call, throttleVars, cacheVars, limiterVars, wsVars,
                   fetchVars, extVars>>

NextQuoteLoop ==
    \/ \E c \in LoopConns : Connect(c)
    \/ \E c \in LoopConns, o \in Outcomes, info \in BOOLEAN : QuoteCycle(c, o, info)
    \/ \E c \in LoopConns, ok \in BOOLEAN : SendDone(c, ok)
    \/ \E c \in LoopConns : WaitTimeout(c)
    \/ \E c \in LoopConns : WaitMessage(c)
    \/ TickQuote

SpecQuoteLoop == InitCommon /\ [][NextQuoteLoop]_vars

\* C15: the refresh loops of the connections of one symbol never run the
\* cache-miss path of the quote fetcher within 60 s of the last write of the
\* symbol's quote to the cache: one upstream quote fetch per 60 s window; every
\* other cycle in the window is served the quote that fetch cached.
C15_OneQuoteFetchPerWindow ==
    /\ lastQuote.state = "miss" =>
          (lastQuote.since < 0 \/ lastQuote.at >= lastQuote.since + 60)
    /\ lastQuote.state = "hit" =>
          /\ lastQuote.since >= 0
          /\ lastQuote.at < lastQuote.since + 60
          /\ lastQuote.val.fetched = lastQuote.since

\* with two connections subscribed, a cycle of w2 is served, 30 s into the
\* window, the quote that an earlier cycle fetched
C15_Witness ==
    /\ lastQuote.state = "hit"
    /\ lastQuote.by = "w2"
    /\ lastQuote.at = lastQuote.since + 30
    /\ Len(PoolGet(pool, Ticker)) = 2
    /\ hpc["w1"] \in {"wait", "send", "fetch"}

(***************************************************************************)
(* SignalEngine.evaluate (main.py:212-306) and the aggregation of the      *)
(* signals route (main.py:606-622).  A column value is a float or NaN;     *)
(* floats are modelled by integers.                                        *)
(***************************************************************************)
NaN == [form |-> "NaN"]
Num(x) == [form |-> "float", v |-> x]

\* pd.notnull(v)
pd_notnull(v) == v # NaN /\ v # None

\* line 223-225: float(v) if pd.notnull(v) else None
safe(bar, col) == IF pd_notnull(bar[col]) THEN bar[col] ELSE None

\* the truth value Python gives a float or None: None and 0.0 are false
Truthy(v) == v # None /\ v.v # 0

Signal(ind, judgment, detail) ==
    [indicator |-> ind, signal |-> judgment, detail |-> detail]

\* lines 228-241
RsiSignal(cur) ==
    LET rsi == safe(cur, "rsi_14") IN
    IF rsi # None
      THEN IF rsi.v < 30 THEN <<Signal("RSI", "BUY", "oversold")>>
           ELSE IF rsi.v > 70 THEN <<Signal("RSI", "SELL", "overbought")>>
           ELSE <<Signal("RSI", "NEUTRAL", "neutral")>>
      ELSE <<>>

\* the MACD rule with the crossover tests written strictly (pm < ps, pm > ps)
MacdSignal_Strict(cur, prev) ==
    LET m == safe(cur, "macd")
        ms_ == safe(cur, "macd_signal")
        pm == prev["macd"]
        ps == prev["macd_signal"]
    IN
    IF \A v \in {m, ms_, pm, ps} : pd_notnull(v)
      THEN IF pm.v < ps.v /\ m.v > ms_.v
             THEN <<Signal("MACD", "BUY", "Bullish crossover")>>
           ELSE IF pm.v > ps.v /\ m.v < ms_.v
             THEN <<Signal("MACD", "SELL", "Bearish crossover")>>
           ELSE IF m.v > ms_.v
             THEN <<Signal("MACD", "BUY", "MACD above signal")>>
             ELSE <<Signal("MACD", "SELL", "MACD below signal")>>
      ELSE <<>>

\* lines 244-263
MacdSignal(cur, prev) ==
    LET m == safe(cur, "macd")
        ms_ == safe(cur, "macd_signal")
        pm == prev["macd"]
        ps == prev["macd_signal"]
    IN
    IF \A v \in {m, ms_, pm, ps} : pd_notnull(v)
      THEN IF pm.v <= ps.v /\ m.v > ms_.v
             THEN <<Signal("MACD", "BUY", "Bullish crossover")>>
           ELSE IF pm.v >= ps.v /\ m.v < ms_.v
             THEN <<Signal("MACD", "SELL", "Bearish crossover")>>
           ELSE IF m.v > ms_.v
             THEN <<Signal("MACD", "BUY", "MACD above signal")>>
             ELSE <<Signal("MACD", "SELL", "MACD below signal")>>
      ELSE <<>>

\* lines 266-277: `if bbu and bbl`
BollingerSignal(cur, price) ==
    LET bbu == safe(cur, "bb_upper")
        bbl == safe(cur, "bb_lower")
    IN
    IF Truthy(bbu) /\ Truthy(bbl)
      THEN IF price >= bbu.v THEN <<Signal("Bollinger", "SELL", "Price at upper band")>>
           ELSE IF price <= bbl.v
             THEN <<Signal("Bollinger", "BUY", "Price at lower band")>>
           ELSE <<Signal("Bollinger", "NEUTRAL", "Price inside bands")>>
      ELSE <<>>

\* lines 280-294
StochSignal(cur) ==
    LET sk == safe(cur, "stoch_k") IN
    IF sk # None
      THEN IF sk.v < 20 THEN <<Signal("Stochastic", "BUY", "oversold")>>
           ELSE IF sk.v > 80 THEN <<Signal("Stochastic", "SELL", "overbought")>>
           ELSE <<Signal("Stochastic", "NEUTRAL", "")>>
      ELSE <<>>

\* lines 297-304: `if vw`
VwapSignal(cur, price) ==
    LET vw == safe(cur, "vwap") IN
    IF Truthy(vw)
      THEN IF price > vw.v THEN <<Signal("VWAP", "BUY", "Price above VWAP")>>
           ELSE <<Signal("VWAP", "SELL", "Price below VWAP")>>
      ELSE <<>>

\* SignalEngine.evaluate (lines 214-306)
evaluate(d) ==
    IF Len(d) < 2 THEN <<>>
    ELSE LET cur == d[Len(d)]
             prev == d[Len(d) - 1]
             price == cur["Close"].v
         IN  RsiSignal(cur) \o MacdSignal(cur, prev) \o BollingerSignal(cur, price)
                \o StochSignal(cur) \o VwapSignal(cur, price)

\* lines 608-610: sum(1 for s in sigs if s["signal"] == j)
CountSignals(list, j) ==
    LET Is(x) == x.signal = j IN Len(SelectSeq(list, Is))

\* the overall judgment with a tie given to BUY
Overall_TieIsBuy(buys, sells) == IF buys >= sells THEN "BUY" ELSE "SELL"

\* line 612
Overall(buys, sells) ==
    IF buys > sells THEN "BUY" ELSE IF sells > buys THEN "SELL" ELSE "NEUTRAL"

\* the values the columns of a bar take
RsiValues == {NaN, Num(29), Num(30), Num(70), Num(71)}
MacdValues == {NaN, Num(0), Num(1)}
UpperValues == {NaN, Num(2), Num(3)}
LowerValues == {NaN, Num(0), Num(1)}
StochValues == {NaN, Num(19), Num(20), Num(80), Num(81)}
VwapValues == {NaN, Num(0), Num(1)}
CloseValues == {Num(1), Num(2)}

Bars ==
    [Close : CloseValues, rsi_14 : RsiValues, macd : MacdValues,
     macd_signal : MacdValues, bb_upper : UpperValues, bb_lower : LowerValues,
     stoch_k : StochValues, vwap : VwapValues]

\* bars of which only the MACD columns vary
MacdBars ==
    [Close : {Num(1)}, rsi_14 : {NaN}, macd : MacdValues, macd_signal : MacdValues,
     bb_upper : {NaN}, bb_lower : {NaN}, stoch_k : {NaN}, vwap : {NaN}]

\* the series handed to evaluate: none, one or two bars with every column
\* varying in the last one, and longer series that vary in the MACD columns
SeriesInputs ==
    {<<>>} \cup {<<b>> : b \in MacdBars}
           \cup {<<p, b>> : p \in MacdBars, b \in Bars}
           \cup UNION {[1..n -> MacdBars] : n \in 3..MaxBars}

\* get_signals (lines 605-622) with fetch_enriched returning the series d; one
\* request per run
GetSignals(d) ==
    /\ report.overall = "none"
    /\ series' = d
    /\ sigs' = evaluate(d)
    /\ report' = LET buys == CountSignals(sigs', "BUY")
                     sells == CountSignals(sigs', "SELL")
                     neutrals == CountSignals(sigs', "NEUTRAL")
                 IN  [overall |-> Overall(buys, sells), buy_count |-> buys,
                      sell_count |-> sells, neutral_count |-> neutrals]
    /\ UNCHANGED <<clock, last_yahoo_call, throttleVars, cacheVars, limiterVars,
                   wsVars, fetchVars, cacheThreadVars, quoteVars, numVars>>

NextSignals == report.overall = "none" /\ \E d \in SeriesInputs : GetSignals(d)

SpecSignals == InitCommon /\ [][NextSignals]_vars

\* the signals of one indicator in a list
Of(list, ind) == LET Is(x) == x.indicator = ind IN SelectSeq(list, Is)

\* bar j of the series has its MACD below (above) its signal line
Below(d, j) ==
    /\ d[j]["macd"] # NaN /\ d[j]["macd_signal"] # NaN
    /\ d[j]["macd"].v < d[j]["macd_signal"].v
Above(d, j) ==
    /\ d[j]["macd"] # NaN /\ d[j]["macd_signal"] # NaN
    /\ d[j]["macd"].v > d[j]["macd_signal"].v

\* the bars at which evaluate, run on the series up to that bar, emits the
\* bullish crossover
BullishBars(d) ==
    {j \in 2..Len(d) :
        \E i \in 1..Len(evaluate(SubSeq(d, 1, j))) :
            evaluate(SubSeq(d, 1, j))[i].detail = "Bullish crossover"}

\* C17: with the four MACD values of the last two bars defined, evaluate emits
\* exactly one MACD signal, BUY or SELL: the bullish crossover iff previous
\* MACD <= previous signal and current MACD > current signal, the bearish
\* crossover iff previous MACD >= previous signal and current MACD < current
\* signal, otherwise BUY if current MACD > signal, else SELL; with one of the four
\* undefined it emits no MACD signal; over a series that is below its signal line
\* up to a bar and above it from the next bar on, the bullish crossover is emitted
\* at that next bar and at no other.
C17_MacdCrossover ==
    (report.overall # "none" /\ Len(series) >= 2) =>
        LET n == Len(series)
            m == series[n]["macd"]
            ms_ == series[n]["macd_signal"]
            pm == series[n - 1]["macd"]
            ps == series[n - 1]["macd_signal"]
            macd == Of(sigs, "MACD")
            bullish == pm.v <= ps.v /\ m.v > ms_.v
            bearish == pm.v >= ps.v /\ m.v < ms_.v
        IN
        /\ IF NaN \in {m, ms_, pm, ps}
             THEN macd = <<>>
             ELSE /\ Len(macd) = 1
                  /\ macd[1].signal \in {"BUY", "SELL"}
                  /\ (macd[1].detail = "Bullish crossover") <=> bullish
                  /\ (macd[1].detail = "Bearish crossover") <=> bearish
                  /\ bullish => macd[1].signal = "BUY"
                  /\ bearish => macd[1].signal = "SELL"
                  /\ (~bullish /\ ~bearish) =>
                        macd[1].signal = IF m.v > ms_.v THEN "BUY" ELSE "SELL"
        /\ \A k \in 1..(n - 1) :
              ((\A j \in 1..k : Below(series, j)) /\ (\A j \in (k + 1)..n : Above(series, j)))
                  => BullishBars(series) = {k + 1}

\* a series of four bars that is below its signal line for two bars and above it
\* for the next two: the crossover was emitted at the third bar, and the fourth
\* gets a plain BUY
C17_Witness ==
    /\ report.overall # "none"
    /\ Len(series) = 4
    /\ Below(series, 1) /\ Below(series, 2) /\ Above(series, 3) /\ Above(series, 4)
    /\ BullishBars(series) = {3}
    /\ Of(sigs, "MACD") = <<Signal("MACD", "BUY", "MACD above signal")>>

\* C18: with both Bollinger bands of the current bar defined, whatever their
\* values, evaluate emits exactly one Bollinger signal: SELL if close >= upper,
\* otherwise BUY if close <= lower, otherwise NEUTRAL; with a band undefined it
\* emits none.
C18_BollingerInclusive ==
    (report.overall # "none" /\ Len(series) >= 2) =>
        LET cur == series[Len(series)]
            close == cur["Close"].v
            boll == Of(sigs, "Bollinger")
        IN
        IF cur["bb_upper"] # NaN /\ cur["bb_lower"] # NaN
          THEN /\ Len(boll) = 1
               /\ boll[1].signal = IF close >= cur["bb_upper"].v THEN "SELL"
                                   ELSE IF close <= cur["bb_lower"].v THEN "BUY"
                                   ELSE "NEUTRAL"
          ELSE boll = <<>>

\* the number of signals of a list with the judgment j
Judged(list, j) == Cardinality({i \in 1..Len(list) : list[i].signal = j})

\* C19: the overall judgment is BUY iff there are more BUY than SELL signals, SELL
\* iff more SELL than BUY, NEUTRAL on every tie (0-0 included); the three counts
\* are the numbers of BUY, SELL and NEUTRAL signals and add up to the number of
\* signals.
C19_AggregateJudgment ==
    report.overall # "none" =>
        /\ report.buy_count = Judged(sigs, "BUY")
        /\ report.sell_count = Judged(sigs, "SELL")
        /\ report.neutral_count = Judged(sigs, "NEUTRAL")
        /\ report.buy_count + report.sell_count + report.neutral_count = Len(sigs)
        /\ (report.overall = "BUY") <=> (report.buy_count > report.sell_count)
        /\ (report.overall = "SELL") <=> (report.sell_count > report.buy_count)
        /\ (report.overall = "NEUTRAL") <=> (report.buy_count = report.sell_count)

\* two BUY against two SELL signals (and one NEUTRAL): a tie that is not 0-0
C19_Witness ==
    /\ report.overall = "NEUTRAL"
    /\ report.buy_count = 2
    /\ report.sell_count = 2
    /\ report.neutral_count = 1

\* the indicators whose required values are defined for the last two bars (VWAP
\* also not zero), in the order of the rules
Emitting(d) ==
    LET cur == d[Len(d)]
        prev == d[Len(d) - 1]
        Has(ind) ==
            CASE ind = "RSI" -> cur["rsi_14"] # NaN
              [] ind = "MACD" -> NaN \notin {cur["macd"], cur["macd_signal"],
                                            prev["macd"], prev["macd_signal"]}
              [] ind = "Bollinger" -> cur["bb_upper"] # NaN /\ cur["bb_lower"] # NaN
              [] ind = "Stochastic" -> cur["stoch_k"] # NaN
              [] ind = "VWAP" -> cur["vwap"] # NaN /\ cur["vwap"].v # 0
    IN  SelectSeq(<<"RSI", "MACD", "Bollinger", "Stochastic", "VWAP">>, Has)

\* C20: evaluate returns the empty list for fewer than 2 bars; otherwise one
\* signal for each indicator whose required values are defined (VWAP also not
\* zero) and none for the others, in the order RSI, MACD, Bollinger, Stochastic,
\* VWAP; RSI < 30 is BUY, > 70 SELL, else NEUTRAL; %K < 20 is BUY, > 80 SELL, else
\* NEUTRAL; VWAP is BUY iff close > VWAP, else SELL.
C20_EvaluateOrderAndRules ==
    report.overall # "none" =>
        IF Len(series) < 2 THEN sigs = <<>>
        ELSE LET cur == series[Len(series)] IN
             /\ [i \in 1..Len(sigs) |-> sigs[i].indicator] = Emitting(series)
             /\ \A i \in 1..Len(sigs) :
                  /\ sigs[i].indicator = "RSI" =>
                        sigs[i].signal = IF cur["rsi_14"].v < 30 THEN "BUY"
                                         ELSE IF cur["rsi_14"].v > 70 THEN "SELL"
                                         ELSE "NEUTRAL"
                  /\ sigs[i].indicator = "Stochastic" =>
                        sigs[i].signal = IF cur["stoch_k"].v < 20 THEN "BUY"
                                         ELSE IF cur["stoch_k"].v > 80 THEN "SELL"
                                         ELSE "NEUTRAL"
                  /\ sigs[i].indicator = "VWAP" =>
                        sigs[i].signal = IF cur["Close"].v > cur["vwap"].v
                                           THEN "BUY" ELSE "SELL"

(***************************************************************************)
(* get_fibonacci (main.py:632-654).  A price is a whole number of          *)
(* thousandths, a ratio a whole number of thousandths, so hi - r * diff is *)
(* a whole number of millionths; a level, rounded to 2 decimals, is a      *)
(* whole number of hundredths.  round(x, 2) gives the nearest hundredth of *)
(* the double x; where hi - r * diff is exactly half-way between two       *)
(* hundredths the double lies just below or just above it, and the level   *)
(* is the lower or the upper hundredth.                                    *)
(***************************************************************************)
\* the ratios of lines 645-651, in thousandths: "0.0%" is round(hi, 2) and
\* "100.0%" is round(lo, 2), that is hi - 0 * diff and hi - 1 * diff
Ratios == <<0, 236, 382, 500, 618, 786, 1000>>

\* round(x, 2) by cutting the digits after the second decimal off
round2_Truncating(x, up) == x \div 10000

\* round(x, 2) of x millionths, in hundredths; `up` is the side a half-way
\* value falls to
round2(x, up) ==
    IF x % 10000 > 5000 \/ (x % 10000 = 5000 /\ up)
      THEN (x \div 10000) + 1 ELSE x \div 10000

\* lines 637-639 and the argument of each round(): hi - r * diff, in millionths
LevelAt(hi, lo, k) == hi * 1000 - Ratios[k] * (hi - lo)

\* period highs and lows: every price up to MaxMills thousandths, and 100
FibPrices == (0..MaxMills) \cup {100000}

\* lines 633-652, df["High"].max() being hi and df["Low"].min() being lo; with
\* hi = lo the seven round() calls have the same argument and the same result
GetFibonacci(hi, lo, up) ==
    /\ fib.state = "none"
    /\ fib' = [state |-> "ok", high |-> hi, low |-> lo,
               levels |-> [k \in 1..7 |->
                   round2(LevelAt(hi, lo, k), IF hi = lo THEN up[1] ELSE up[k])]]
    /\ UNCHANGED <<clock, last_yahoo_call, throttleVars, cacheVars, limiterVars,
                   wsVars, fetchVars, cacheThreadVars, quoteVars, signalVars,
                   nbars, avg_gain, avg_loss, rsi_14>>

NextFib ==
    /\ fib.state = "none"
    /\ \E hi \in FibPrices, lo \in FibPrices, up \in [1..7 -> BOOLEAN] :
          hi >= lo /\ GetFibonacci(hi, lo, up)

SpecFib == InitCommon /\ [][NextFib]_vars

\* each level is high - r * (high - low) rounded to 2 decimals: the hundredth
\* nearest to it
NearestHundredth ==
    \A k \in 1..7 :
        LET x == fib.high * 1000 - Ratios[k] * (fib.high - fib.low)
            d == fib.levels[k] * 10000 - x
        IN  d <= 5000 /\ -d <= 5000
\* the levels of high = 100, low = 0
HundredToZero ==
    (fib.high = 100000 /\ fib.low = 0) =>
        fib.levels = <<10000, 7640, 6180, 5000, 3820, 2140, 0>>
NonIncreasing == \A k \in 1..6 : fib.levels[k] >= fib.levels[k + 1]

\* C23 as stated: for any period high >= low the Fibonacci levels are
\* high - r * (high - low) for r in {0, 0.236, 0.382, 0.5, 0.618, 0.786, 1},
\* rounded to 2 decimals; for high = 100, low = 0 they are exactly 100, 76.4,
\* 61.8, 50, 38.2, 21.4, 0; the levels are non-increasing from the 0% level to
\* the 100% level and all lie in [low, high].
C23_FibonacciLevels ==
    fib.state = "ok" =>
        /\ NearestHundredth
        /\ HundredToZero
        /\ NonIncreasing
        /\ \A k \in 1..7 :
              fib.low <= fib.levels[k] * 10 /\ fib.levels[k] * 10 <= fib.high

\* C23, amended: as above, but the levels lie between low rounded to 2 decimals
\* (the 100% level) and high rounded to 2 decimals (the 0% level), which are
\* within half a hundredth of low and of high.
C23_FibonacciLevelsWithinRounding ==
    fib.state = "ok" =>
        /\ NearestHundredth
        /\ HundredToZero
        /\ NonIncreasing
        /\ \A k \in 1..7 :
              /\ fib.levels[7] <= fib.levels[k] /\ fib.levels[k] <= fib.levels[1]
              /\ fib.low - 5 <= fib.levels[k] * 10
              /\ fib.levels[k] * 10 <= fib.high + 5

\* a period whose high is not a whole number of hundredths and rounds up: the
\* 0% level is above the high, and the levels fall from there to the 100% level
C23_Witness ==
    /\ fib.state = "ok"
    /\ fib.levels[1] * 10 > fib.high
    /\ fib.levels[1] > fib.levels[4]
    /\ fib.levels[4] > fib.levels[7]

(***************************************************************************)
(* TA.rsi (main.py:126-137), one bar of the close series per step: the     *)
(* exponentially weighted means with adjust=False are recursive, so the    *)
(* value of a bar depends on the bars before it only through the two       *)
(* running means.  A close changes by a whole number from bar to bar; a    *)
(* mean, the ratio rs and the RSI are whole numbers of hundredths, each    *)
(* division rounding down.  The 1e-10 that replaces a zero mean loss is    *)
(* below that resolution: a positive mean gain divided by it is larger     *)
(* than every number of the model.                                         *)
(***************************************************************************)
\* close.diff() from the second bar on
Deltas == {-1, 0, 1}

\* a quotient larger than every number of the model
Huge == [form |-> "huge"]

\* delta.clip(lower=0) and (-delta).clip(lower=0), lines 128-129
clip_lower0(x) == IF x < 0 THEN 0 ELSE x

\* ewm(..).mean() giving a value from the very first observation on
min_periods_met_FromFirst(nobs) == nobs >= 1

\* ewm(min_periods=period): the mean has a value once `period` observations
\* that are not NaN have been seen
min_periods_met(nobs) == nobs >= RSI_PERIOD

\* ewm(alpha=1/period, adjust=False).mean(), one observation further: y = x
\* for the first observation, then y = (1 - alpha) * y + alpha * x
ewm_mean(prev, x) ==
    IF prev = NaN THEN Num(x * 100)
    ELSE Num(((RSI_PERIOD - 1) * prev.v + x * 100) \div RSI_PERIOD)

\* line 136: rs = avg_gain / avg_loss.replace(0, 1e-10)
rs_of(gain, loss) ==
    IF loss.v # 0 THEN Num((gain.v * 100) \div loss.v)
    ELSE IF gain.v = 0 THEN Num(0)
    ELSE Huge

\* line 137: 100 - (100 / (1 + rs))
rsi_of(rs) ==
    IF rs = Huge THEN Num(10000)
    ELSE Num(10000 - (10000 * 100) \div (100 + rs.v))

\* the first bar of the series: its delta is NaN, which clip keeps and ewm
\* skips
RsiFirstBar ==
    /\ nbars = 0
    /\ nbars' = 1
    /\ UNCHANGED <<avg_gain, avg_loss, rsi_14>>
    /\ UNCHANGED <<clock, last_yahoo_call, throttleVars, cacheVars, limiterVars,
                   wsVars, fetchVars, cacheThreadVars, quoteVars, signalVars, fib>>

\* a further bar, whose close differs by d from the close before it
RsiBar(d) ==
    LET gain == ewm_mean(avg_gain, clip_lower0(d))
        loss == ewm_mean(avg_loss, clip_lower0(-d))
    IN
    /\ nbars >= 1
    /\ nbars < MaxRsiBars
    /\ nbars' = nbars + 1
    /\ avg_gain' = gain
    /\ avg_loss' = loss
    /\ rsi_14' = IF min_periods_met(nbars) THEN rsi_of(rs_of(gain, loss)) ELSE NaN
    /\ UNCHANGED <<clock, last_yahoo_call, throttleVars, cacheVars, limiterVars,
                   wsVars, fetchVars, cacheThreadVars, quoteVars, signalVars, fib>>

NextRsi ==
    \/ RsiFirstBar
    \/ \E d \in Deltas : RsiBar(d)

SpecRsi == InitCommon /\ [][NextRsi]_vars

\* C24: for every close series the RSI(14) of a bar is undefined for each of
\* the first 14 bars, and wherever it is defined it lies in [0, 100], also when
\* every change is a gain (the zero mean loss replaced by epsilon) or a loss.
C24_RsiUndefinedThenInRange ==
    /\ nbars <= 14 => rsi_14 = NaN
    /\ pd_notnull(rsi_14) => (0 <= rsi_14.v /\ rsi_14.v <= 10000)

\* the 15th bar of a series that never fell and rose at least once: the mean
\* loss is zero, the mean gain is not, and the RSI is defined
C24_Witness ==
    /\ nbars = 15
    /\ pd_notnull(rsi_14)
    /\ avg_loss = Num(0)
    /\ avg_gain.v > 0
    /\ rsi_14.v > 5000

====
